---------------------------- MODULE Spec2Model ----------------------------
(***************************************************************************)
(* Evidence analysis orchestration of the cybercrime portal backend.       *)
(*                                                                         *)
(* Spec        - the task invocation layer of AIService: every operation   *)
(*               spawns one python worker, collects its stdout / stderr    *)
(*               chunks and settles its promise in the 'close' handler;    *)
(*               several invocations run concurrently.                     *)
(* SpecScript  - one worker seen from the inside: the inline python        *)
(*               program of an operation, run statement by statement, and  *)
(*               the settlement of its invocation.                         *)
(* SpecLive    - the invocation layer with callers that stop waiting.     *)
(* SpecSimilarity - one similarity check request, from the route to the   *)
(*               matchers and the answer.                                  *)
(* SpecPhone   - validateAndFormatIndianNumber applied to one input.       *)
(* SpecAuth    - the users table under the register, verify-otp, login,    *)
(*               login-verify and logout routes.                           *)
(* SpecClient  - the web client in one browser tab: route guard, login     *)
(*               pages, stored session and the response interceptor.       *)
(* SpecDesk    - officer tokens and the data-request routes behind         *)
(*               requireOfficer.                                           *)
(* SpecBatch   - one analyze-batch request, file by file.                  *)
(* SpecBoot    - the server process from initDB to listening.              *)
(*                                                                         *)
(* Text is a sequence of characters.  A character is a triple              *)
(* <<class, key, value>>; the classes are white space, a letter that       *)
(* cannot start a JSON value, the digit 1, the two braces, and one         *)
(* "key": value member of a JSON object, written as one unit.  The value   *)
(* of a member is a sequence of words; the empty string is <<>>.           *)
(***************************************************************************)
EXTENDS Integers, Sequences, FiniteSets, TLC

\* ------------------------------------------------------------------ bounds
\* characters all workers together may write before they end
MaxOut == 2

\* ------------------------------------------------------------ text and JSON
WS == <<"ws", "", <<>> >>
LETTER == <<"x", "", <<>> >>
DIGIT == <<"1", "", <<>> >>
LBRACE == <<"{", "", <<>> >>
RBRACE == <<"}", "", <<>> >>
Member(k, v) == <<"member", k, v>>

\* String.prototype.trim: white space removed at both ends
RECURSIVE TrimStart(_)
TrimStart(s) ==
    IF s # <<>> /\ Head(s) = WS THEN TrimStart(Tail(s)) ELSE s

RECURSIVE TrimEnd(_)
TrimEnd(s) ==
    IF s # <<>> /\ s[Len(s)] = WS THEN TrimEnd(SubSeq(s, 1, Len(s) - 1)) ELSE s

Trim(s) == TrimStart(TrimEnd(s))

\* JS values: a number, an object (keys to values), or the two
\* raw-text objects {output: text} and {text: text}
EmptyObj == [k \in {} |-> <<>>]
NoValue == [type |-> "none", num |-> 0, obj |-> EmptyObj, text |-> <<>>]
JNumber(n) == [type |-> "number", num |-> n, obj |-> EmptyObj, text |-> <<>>]
JObject(o) == [type |-> "object", num |-> 0, obj |-> o, text |-> <<>>]
OutputObject(t) == [type |-> "output", num |-> 0, obj |-> EmptyObj, text |-> t]
TextObject(t) == [type |-> "text", num |-> 0, obj |-> EmptyObj, text |-> t]
SyntaxError == [type |-> "SyntaxError", num |-> 0, obj |-> EmptyObj, text |-> <<>>]

IsNumberText(t) == t # <<>> /\ \A i \in 1..Len(t) : t[i] = DIGIT

RECURSIVE NumberValue(_)
NumberValue(t) ==
    IF t = <<>> THEN 0 ELSE 10 * NumberValue(SubSeq(t, 1, Len(t) - 1)) + 1

IsObjectText(t) ==
    /\ Len(t) >= 2
    /\ t[1] = LBRACE
    /\ t[Len(t)] = RBRACE
    /\ \A i \in 2..(Len(t) - 1) : t[i][1] \in {"member", "ws"}

\* the members of an object text; a repeated key keeps its last value
ObjectValue(t) ==
    LET idx == {i \in 2..(Len(t) - 1) : t[i][1] = "member"}
        keys == {t[i][2] : i \in idx}
        last(k) == CHOOSE i \in idx :
                      /\ t[i][2] = k
                      /\ \A j \in idx : t[j][2] = k => j <= i
    IN  [k \in keys |-> t[last(k)][3]]

\* JSON.parse: the whole text must be exactly one JSON value, white space
\* allowed around it
JSONParse(s) ==
    LET t == Trim(s)
    IN  IF IsNumberText(t) THEN JNumber(NumberValue(t))
        ELSE IF IsObjectText(t) THEN JObject(ObjectValue(t))
        ELSE SyntaxError


JString(t) == [type |-> "string", num |-> 0, obj |-> EmptyObj, text |-> t]

\* every key an object of the model can have, in the order it is written
KeyOrder ==
    << "complaint", "image_path", "pdf_path", "audio_path", "video_path",
       "audio_file_path", "video_file_path", "image_file_path", "pdf_file_path",
       "error", "transcribed_text", "transcribed_audio", "text_from_frames",
       "extracted_text", "details", "summary", "analysis",
       "contradiction_analysis", "has_contradiction", "incident_details",
       "narrative_summary", "classification", "priority_score" >>

RECURSIVE MembersFrom(_, _)
MembersFrom(o, i) ==
    IF i > Len(KeyOrder) THEN <<>>
    ELSE (IF KeyOrder[i] \in DOMAIN o
             THEN <<Member(KeyOrder[i], o[KeyOrder[i]])>> ELSE <<>>)
         \o MembersFrom(o, i + 1)

\* JSON.stringify / json.dumps of an object
Stringify(o) == <<LBRACE>> \o MembersFrom(o, 1) \o <<RBRACE>>

\* ------------------------------------------------------- AIService: outcomes
NoError == [prefix |-> <<>>, what |-> "none", code |-> 0, diag |-> <<>>]
Unsettled == [state |-> "pending", value |-> NoValue, err |-> NoError]
Resolved(v) == [state |-> "resolved", value |-> v, err |-> NoError]
Rejected(e) == [state |-> "rejected", value |-> NoValue, err |-> e]
Thrown(e) == [state |-> "thrown", value |-> NoValue, err |-> e]

\* new Error(`<what> <code>: <diag>`)
ExitError(what, code, diag) ==
    [prefix |-> <<>>, what |-> what, code |-> code, diag |-> diag]

\* the exception spawn() throws synchronously
SpawnError == [prefix |-> <<>>, what |-> "spawn", code |-> 0, diag |-> <<>>]

\* a || b on strings
Or(a, b) == IF a # <<>> THEN a ELSE b

\* new Error(`<prefix>${error.message}`)
WithPrefix(p, s) ==
    IF s.state = "rejected"
        THEN Rejected([s.err EXCEPT !.prefix = <<p>> \o s.err.prefix])
        ELSE s

\* variants of the 'close' handler with a slip in it
RunPythonInlineCloseNoParse(code, result, error) ==
    IF code # 0
        THEN Rejected(ExitError("Python exited with code", code, Or(error, result)))
        ELSE Resolved(OutputObject(Trim(result)))

RunPythonInlineCloseStderrOnly(code, result, error) ==
    IF code # 0
        THEN Rejected(ExitError("Python exited with code", code, error))
        ELSE LET parsed == JSONParse(result)
             IN  IF parsed # SyntaxError
                     THEN Resolved(parsed)
                     ELSE Resolved(OutputObject(Trim(result)))

RunPythonInlineCloseNoTrim(code, result, error) ==
    IF code # 0
        THEN Rejected(ExitError("Python exited with code", code, Or(error, result)))
        ELSE LET parsed == JSONParse(result)
             IN  IF parsed # SyntaxError
                     THEN Resolved(parsed)
                     ELSE Resolved(OutputObject(result))

RunPythonInlineCloseIgnoreCode(code, result, error) ==
    LET parsed == JSONParse(result)
    IN  IF parsed # SyntaxError
            THEN Resolved(parsed)
            ELSE Resolved(OutputObject(Trim(result)))

\* 'close' handler of #runPythonInline
RunPythonInlineClose(code, result, error) ==
    IF code # 0
        THEN Rejected(ExitError("Python exited with code", code, Or(error, result)))
        ELSE LET parsed == JSONParse(result)
             IN  IF parsed # SyntaxError
                     THEN Resolved(parsed)
                     ELSE Resolved(OutputObject(Trim(result)))

\* 'close' handler of extractTextFromFile
ExtractTextClose(code, result, error) ==
    IF code # 0
        THEN Rejected(ExitError("Python process exited with code", code, error))
        ELSE LET extractedText == JSONParse(result)
             IN  IF extractedText # SyntaxError
                     THEN Resolved(extractedText)
                     ELSE Resolved(TextObject(Trim(result)))

\* the operations that go through #runPythonInline, with the prefix of
\* the error their catch block throws
InlineOps ==
    { "analyzeComplaint", "checkDatabaseSimilarity", "getChatbotResponse",
      "classifyContent", "findContradictions", "detectCallScam",
      "completeAnalysis", "analyzeAudioFile", "analyzeVideoFile",
      "analyzeImageFile", "analyzePdfFile" }

Operations == InlineOps \cup {"extractTextFromFile"}

FailedPrefix(op) ==
    CASE op = "analyzeComplaint" -> "AI analysis failed: "
      [] op = "checkDatabaseSimilarity" -> "Database similarity check failed: "
      [] op = "getChatbotResponse" -> "Chatbot response failed: "
      [] op = "extractTextFromFile" -> "Text extraction failed: "
      [] op = "classifyContent" -> "Content classification failed: "
      [] op = "findContradictions" -> "Contradiction analysis failed: "
      [] op = "detectCallScam" -> "Call scam detection failed: "
      [] op = "completeAnalysis" -> "Complete analysis failed: "
      [] op = "analyzeAudioFile" -> "Audio analysis failed: "
      [] op = "analyzeVideoFile" -> "Video analysis failed: "
      [] op = "analyzeImageFile" -> "Image analysis failed: "
      [] op = "analyzePdfFile" -> "PDF analysis failed: "

\* the 'close' handler the operation registered
CloseHandler(op, code, result, error) ==
    IF op = "extractTextFromFile"
        THEN ExtractTextClose(code, result, error)
        ELSE RunPythonInlineClose(code, result, error)

\* what the operation's own promise settles with, given how the promise
\* of its worker settled: the inline operations await it inside try/catch,
\* extractTextFromFile returns it without awaiting
OperationOutcome(op, s) ==
    IF op \in InlineOps THEN WithPrefix(FailedPrefix(op), s) ELSE s

\* route handler: 200 with the value, 500 with {message}
NoResponse == [status |-> 0, body |-> NoValue, message |-> NoError]
RouteResponse(s) ==
    IF s.state = "resolved"
        THEN [status |-> 200, body |-> s.value, message |-> NoError]
        ELSE [status |-> 500, body |-> NoValue, message |-> s.err]

\* const inputString = typeof inputJson === 'string' ? inputJson : JSON.stringify(inputJson)
InputString(inputJson) ==
    IF inputJson.type = "string" THEN inputJson.text ELSE Stringify(inputJson.obj)

\* a #runPythonInline that ends stdin only after a write
StdinOpsEndAfterWrite(inputJson) ==
    LET inputString == InputString(inputJson)
    IN  IF inputString # <<>> THEN << <<"write", inputString>>, <<"end", <<>> >> >> ELSE <<>>

\* what #runPythonInline does to the worker's stdin
StdinOps(inputJson) ==
    LET inputString == InputString(inputJson)
    IN  (IF inputString # <<>> THEN << <<"write", inputString>> >> ELSE <<>>)
        \o << <<"end", <<>> >> >>

\* ------------------------------------------------ the invocation layer: state
VARIABLES
    inv,        \* per call of an operation: its closure and its promise
    procs,      \* the worker processes started so far, by pid
    crashed,    \* the orchestrator died of an uncaught exception
    run,        \* one worker seen from the inside (SpecScript)
    waiting,    \* the calls whose caller still waits for the answer
    sim,        \* one similarity check request (SpecSimilarity)
    phone,      \* one phone number being normalised (SpecPhone)
    auth,       \* accounts, one-time codes and sessions (SpecAuth)
    client,     \* the browser: location, storage, requests (SpecClient)
    desk,       \* officer tokens and data requests (SpecDesk)
    batch,      \* one analyze-batch request (SpecBatch)
    boot        \* the server process from start to listening (SpecBoot)

invVars == <<inv, procs, crashed>>

Calls == {"call1", "call2"}

\* the parts of the backend an AIService invocation does not touch
Idle == [phase |-> "none"]
restVars == <<waiting, sim, phone, auth, client, desk, batch, boot>>
RestIdle ==
    /\ waiting = Calls
    /\ sim = Idle
    /\ phone = Idle
    /\ auth = Idle
    /\ client = Idle
    /\ desk = Idle
    /\ batch = Idle
    /\ boot = Idle

\* inputJson of #runPythonInline as the routes pass it: the request body
RequestBodies == {JObject(EmptyObj)}

FileTypes == {"pdf", "video", "docx"}
SupportedFileTypes == {"pdf", "image", "audio", "video"}

Args(op) == IF op = "extractTextFromFile" THEN FileTypes ELSE RequestBodies

\* how spawn() can end: a child process, an exception thrown by spawn
\* itself, or a child object on which 'error' is emitted on the next tick
SpawnOutcomes == {"started", "throws", "errorEvent"}

ExitCodes == {0, 1, 137}
StdoutChars == {WS, LETTER, DIGIT}
StderrChars == {LETTER}

\* the events of the child process the invocation listens to
Listeners == {"stdout.data", "stderr.data", "close"}

IdleCall ==
    [op |-> "none", phase |-> "idle", pid |-> 0,
     result |-> <<>>, error |-> <<>>,
     promise |-> Unsettled, outcome |-> Unsettled, response |-> NoResponse]

NewProc(state, stdin) ==
    [state |-> state, stdin |-> stdin, out |-> <<>>, err |-> <<>>, code |-> 0]

RECURSIVE Written(_)
Written(ps) ==
    IF ps = <<>> THEN 0
    ELSE Len(Head(ps).out) + Len(Head(ps).err) + Written(Tail(ps))

\* the call whose closure listens to process p
HasOwner(p) == \E c \in Calls : inv[c].pid = p
Owner(p) == CHOOSE c \in Calls : inv[c].pid = p

\* one `result` / `error` shared by all calls
ResultOfShared(c) == "call1"

\* the closure whose `result` / `error` the data handlers of call c append to
ResultOf(c) == c

Settle(call, promise) ==
    LET outcome == OperationOutcome(call.op, promise)
    IN  [call EXCEPT !.phase = "settled", !.promise = promise,
                     !.outcome = outcome, !.response = RouteResponse(outcome)]

NoRun == [op |-> "none", phase |-> "none"]

Init ==
    /\ inv = [c \in Calls |-> IdleCall]
    /\ procs = <<>>
    /\ crashed = FALSE
    /\ run = NoRun
    /\ RestIdle

\* a call of an operation, up to the point where it waits for its worker
Invoke(c, op, arg, how) ==
    /\ ~crashed
    /\ inv[c].phase = "idle"
    /\ LET call == [inv[c] EXCEPT !.op = op, !.phase = "pending"]
           stdin == IF op = "extractTextFromFile" THEN <<>> ELSE StdinOps(arg)
       IN  IF op = "extractTextFromFile" /\ arg \notin SupportedFileTypes
           THEN /\ inv' = [inv EXCEPT ![c] =
                      Settle(call, WithPrefix(FailedPrefix(op),
                          Rejected(ExitError("Unsupported file type", 0, <<>>))))]
                /\ UNCHANGED procs
           ELSE CASE how = "started" ->
                      /\ procs' = Append(procs, NewProc("running", stdin))
                      /\ inv' = [inv EXCEPT ![c] =
                             [call EXCEPT !.pid = Len(procs) + 1]]
                  [] how = "errorEvent" ->
                      /\ procs' = Append(procs, NewProc("failed", stdin))
                      /\ inv' = [inv EXCEPT ![c] =
                             [call EXCEPT !.pid = Len(procs) + 1]]
                  [] how = "throws" ->
                      /\ inv' = [inv EXCEPT ![c] = Settle(call, Rejected(SpawnError))]
                      /\ UNCHANGED procs
    /\ UNCHANGED <<crashed, run, restVars>>

\* a data handler that resolves as soon as what has arrived parses
OnStdoutDataEager(call, data) ==
    LET r == call.result \o data
    IN  IF JSONParse(r) # SyntaxError
            THEN Settle([call EXCEPT !.result = r], Resolved(JSONParse(r)))
            ELSE [call EXCEPT !.result = r]

\* result += data.toString()
OnStdoutData(call, data) == [call EXCEPT !.result = @ \o data]

\* pythonProcess.stdout.on('data', ...)
StdoutData(p, data) ==
    /\ ~crashed
    /\ p \in DOMAIN procs
    /\ procs[p].state = "running"
    /\ HasOwner(p)
    /\ Written(procs) < MaxOut
    /\ procs' = [procs EXCEPT ![p].out = @ \o data]
    /\ inv' = [inv EXCEPT ![ResultOf(Owner(p))] = OnStdoutData(@, data)]
    /\ UNCHANGED <<crashed, run, restVars>>

\* pythonProcess.stderr.on('data', ...)
StderrData(p, data) ==
    /\ ~crashed
    /\ p \in DOMAIN procs
    /\ procs[p].state = "running"
    /\ HasOwner(p)
    /\ Written(procs) < MaxOut
    /\ procs' = [procs EXCEPT ![p].err = @ \o data]
    /\ inv' = [inv EXCEPT ![ResultOf(Owner(p))].error = @ \o data]
    /\ UNCHANGED <<crashed, run, restVars>>

\* a 'close' handler that starts the worker again after a failure
WorkersAfterCloseRetry(ps, p, code) ==
    IF code # 0
        THEN Append([ps EXCEPT ![p].state = "closed", ![p].code = code],
                    NewProc("running", ps[p].stdin))
        ELSE [ps EXCEPT ![p].state = "closed", ![p].code = code]

\* the process table after the 'close' handler of process p ran: the
\* handler starts no process
WorkersAfterClose(ps, p, code) ==
    [ps EXCEPT ![p].state = "closed", ![p].code = code]

\* pythonProcess.on('close', ...) and the continuations of the promise; an
\* exception that escapes an event handler is an uncaught exception
Close(p, code) ==
    /\ ~crashed
    /\ p \in DOMAIN procs
    /\ procs[p].state = "running"
    /\ HasOwner(p)
    /\ procs' = WorkersAfterClose(procs, p, code)
    /\ LET c == Owner(p)
           promise == CloseHandler(inv[c].op, code, inv[c].result, inv[c].error)
       IN  IF promise.state = "thrown"
               THEN crashed' = TRUE /\ UNCHANGED inv
               ELSE /\ inv' = [inv EXCEPT ![c] = Settle(inv[c], promise)]
                    /\ UNCHANGED crashed
    /\ UNCHANGED <<run, restVars>>

\* the child object emits 'error' (the executable could not be started);
\* an 'error' event without a listener is thrown as an uncaught exception
ErrorEvent(p) ==
    /\ ~crashed
    /\ p \in DOMAIN procs
    /\ procs[p].state = "failed"
    /\ HasOwner(p)
    /\ procs' = [procs EXCEPT ![p].state = "errored"]
    /\ IF "error" \in Listeners
           THEN /\ inv' = [inv EXCEPT ![Owner(p)] = Settle(inv[Owner(p)], Rejected(SpawnError))]
                /\ UNCHANGED crashed
           ELSE /\ crashed' = TRUE
                /\ UNCHANGED inv
    /\ UNCHANGED <<run, restVars>>

Next ==
    \/ \E c \in Calls, op \in Operations, how \in SpawnOutcomes :
          \E arg \in Args(op) : Invoke(c, op, arg, how)
    \/ \E p \in DOMAIN procs, ch \in StdoutChars : StdoutData(p, <<ch>>)
    \/ \E p \in DOMAIN procs, ch \in StderrChars : StderrData(p, <<ch>>)
    \/ \E p \in DOMAIN procs, code \in ExitCodes : Close(p, code)
    \/ \E p \in DOMAIN procs : ErrorEvent(p)

vars == <<inv, procs, crashed, run, waiting, sim, phone, auth, client, desk, batch, boot>>

Spec == Init /\ [][Next]_vars

\* ------------------------------------------ the invocation layer: its callers
\* the operations whose callers are followed while they wait
LiveOps == {"completeAnalysis", "extractTextFromFile"}

\* an orchestrator that ends the worker of a call nobody waits for
WorkersAfterTimeoutKill(ps, c) ==
    IF inv[c].pid \in DOMAIN ps /\ ps[inv[c].pid].state = "running"
        THEN [ps EXCEPT ![inv[c].pid].state = "closed", ![inv[c].pid].code = 137]
        ELSE ps

\* the process table after the caller of call c stopped waiting: neither
\* the route nor AIService listens for the caller going away, and there is
\* no timer and no kill() anywhere
WorkersAfterTimeout(ps, c) == ps

\* the caller of a pending call gives up (the client's request timeout)
CallerTimeout(c) ==
    /\ ~crashed
    /\ inv[c].phase = "pending"
    /\ c \in waiting
    /\ waiting' = waiting \ {c}
    /\ procs' = WorkersAfterTimeout(procs, c)
    /\ UNCHANGED <<inv, crashed, run, sim, phone, auth, client, desk, batch, boot>>

NextLive ==
    \/ \E c \in Calls, op \in LiveOps, how \in SpawnOutcomes :
          \E arg \in Args(op) : Invoke(c, op, arg, how)
    \/ \E p \in DOMAIN procs, ch \in StdoutChars : StdoutData(p, <<ch>>)
    \/ \E p \in DOMAIN procs, ch \in StderrChars : StderrData(p, <<ch>>)
    \/ \E p \in DOMAIN procs, code \in ExitCodes : Close(p, code)
    \/ \E p \in DOMAIN procs : ErrorEvent(p)
    \/ \E c \in Calls : CallerTimeout(c)

SpecLive == Init /\ [][NextLive]_vars

\* ------------------------------------------- the worker scripts: one worker
\* the inline python programs of the seven operations that read evidence
PipelineOps == {"analyzeComplaint", "findContradictions", "completeAnalysis"}
AdapterOps == {"analyzeAudioFile", "analyzeVideoFile", "analyzeImageFile", "analyzePdfFile"}
ScriptOps == PipelineOps \cup AdapterOps

Evidence == {"image", "pdf", "audio", "video"}

PathKey(k) ==
    CASE k = "image" -> "image_path"
      [] k = "pdf" -> "pdf_path"
      [] k = "audio" -> "audio_path"
      [] k = "video" -> "video_path"

\* the extraction routine of a kind of evidence
Routine(k) ==
    CASE k = "image" -> "extract_text_from_image"
      [] k = "pdf" -> "extract_text_from_pdf"
      [] k = "audio" -> "extract_text_from_audio"
      [] k = "video" -> "extract_details_from_video"

\* the kind of evidence, the request field and the error text of an adapter
AdapterKind(op) ==
    CASE op = "analyzeAudioFile" -> "audio"
      [] op = "analyzeVideoFile" -> "video"
      [] op = "analyzeImageFile" -> "image"
      [] op = "analyzePdfFile" -> "pdf"

AdapterKey(op) ==
    CASE op = "analyzeAudioFile" -> "audio_file_path"
      [] op = "analyzeVideoFile" -> "video_file_path"
      [] op = "analyzeImageFile" -> "image_file_path"
      [] op = "analyzePdfFile" -> "pdf_file_path"

NotFound(op) ==
    CASE op = "analyzeAudioFile" -> <<"Audio file not found">>
      [] op = "analyzeVideoFile" -> <<"Video file not found">>
      [] op = "analyzeImageFile" -> <<"Image file not found">>
      [] op = "analyzePdfFile" -> <<"PDF file not found">>

\* the statements of a script, in program order
Script(op) ==
    CASE op = "analyzeComplaint" ->
            <<"load", "image", "pdf", "audio", "video", "details", "summary", "print">>
      [] op = "findContradictions" ->
            <<"load", "image", "pdf", "audio", "video", "contradiction", "print">>
      [] op = "completeAnalysis" ->
            <<"load", "image", "pdf", "audio", "video", "contradiction", "details",
              "summary", "classify", "print">>
      [] op \in AdapterOps ->
            <<"load", "exists", "extract", "print">>

EvidencePath == <<"/evidence">>
PathValues == {<<>>, EvidencePath}
PathKeys == {PathKey(k) : k \in Evidence}
Complaint == ("complaint" :> <<"narrative">>)

\* request bodies: the complaint and any of the four optional paths, each
\* left out, empty or set
PipelineBodies ==
    {JObject(Complaint @@ o) : o \in UNION {[K -> PathValues] : K \in SUBSET PathKeys}}

AdapterBodies(op) ==
    {JObject(EmptyObj)} \cup {JObject(AdapterKey(op) :> v) : v \in PathValues}

\* inputJson that is no object: text that is not JSON, the empty string
\* (nothing is written to stdin), and JSON text of a number
StringInputs == {JString(<<LETTER>>), JString(<<>>), JString(<<DIGIT>>)}

ScriptInputs(op) ==
    (IF op \in PipelineOps THEN PipelineBodies ELSE AdapterBodies(op)) \cup StringInputs

PriorityLabels == {"Very Low", "Low", "Medium", "High", "Very High"}

Locals ==
    { "image_text", "pdf_text", "audio_text", "text_from_video_audio",
      "text_from_frames", "text_from_video_frames", "contradiction_analysis",
      "has_contradiction", "incident_details", "narrative_summary",
      "classification", "score", "text" }

\* what the worker reads from its stdin: the texts written to it
RECURSIVE StdinText(_)
StdinText(ops) ==
    IF ops = <<>> THEN <<>>
    ELSE (IF Head(ops)[1] = "write" THEN Head(ops)[2] ELSE <<>>) \o StdinText(Tail(ops))

NewRun(op, inputJson, fs) ==
    [op |-> op, phase |-> "running", inputJson |-> inputJson, fs |-> fs,
     stdinOps |-> StdinOps(inputJson),
     stdin |-> StdinText(StdinOps(inputJson)), pc |-> 1, data |-> EmptyObj,
     vals |-> [v \in Locals |-> <<>>], called |-> {}, statted |-> {},
     raisedAt |-> "", stdout |-> <<>>, stderr |-> <<>>, code |-> 0,
     promise |-> Unsettled, outcome |-> Unsettled, response |-> NoResponse]

InitScript ==
    /\ inv = [c \in Calls |-> IdleCall]
    /\ procs = <<>>
    /\ crashed = FALSE
    /\ RestIdle
    /\ \E op \in ScriptOps, fs \in SUBSET {EvidencePath} :
          \E inputJson \in ScriptInputs(op) : run = NewRun(op, inputJson, fs)

\* a test that takes only None for false
TruthyNotNone(o, key) == key \in DOMAIN o

\* `x if path else ...`, `not path`: None and '' are false
Truthy(o, key) == key \in DOMAIN o /\ o[key] # <<>>

\* ' '.join(list)
RECURSIVE Join(_)
Join(list) ==
    IF Len(list) <= 1 THEN list
    ELSE <<Head(list), " ">> \o Join(Tail(list))

\* an exception nobody catches: the traceback goes to stderr and the
\* interpreter ends with status 1
Raise(r, stmt) ==
    [r EXCEPT !.raisedAt = stmt, !.stderr = @ \o <<LETTER>>, !.code = 1,
              !.phase = "exited"]

\* on to the next statement; after the last one the interpreter ends with 0
Advance(r) ==
    IF r.pc = Len(Script(r.op))
        THEN [r EXCEPT !.pc = @ + 1, !.phase = "exited", !.code = 0]
        ELSE [r EXCEPT !.pc = @ + 1]

\* exit()
Exit(r) == [r EXCEPT !.pc = Len(Script(r.op)) + 1, !.phase = "exited", !.code = 0]

\* print(json.dumps(o))
PrintJson(r, o) == [r EXCEPT !.stdout = @ \o Stringify(o) \o <<WS>>]

At(stmt) ==
    /\ run.phase = "running"
    /\ run.pc \in DOMAIN Script(run.op)
    /\ Script(run.op)[run.pc] = stmt

\* data = json.loads(sys.stdin.read() or '{}'); data.get(...)
Load ==
    /\ At("load")
    /\ LET parsed == JSONParse(Or(run.stdin, Stringify(EmptyObj)))
       IN  run' = IF parsed.type = "object"
                      THEN Advance([run EXCEPT !.data = parsed.obj])
                      ELSE Raise(run, "load")
    /\ UNCHANGED <<invVars, restVars>>

\* x_text = extract_x(x_path) if x_path else ''
\* video: the details, or {"transcribed_audio": "", "text_from_frames": []}
ExtractEvidence(k, returns) ==
    /\ At(k)
    /\ run.op \in PipelineOps
    /\ IF Truthy(run.data, PathKey(k))
           THEN LET r == [run EXCEPT !.called = @ \cup {Routine(k)}]
                IN  run' = IF ~returns THEN Raise(r, k)
                           ELSE IF k = "video"
                               THEN Advance([r EXCEPT
                                       !.vals["text_from_video_audio"] = <<"speech">>,
                                       !.vals["text_from_frames"] = <<"frame1", "frame2">>,
                                       !.vals["text_from_video_frames"] =
                                            Join(<<"frame1", "frame2">>)])
                               ELSE Advance([r EXCEPT !.vals[k \o "_text"] = <<k>>])
           ELSE /\ returns
                /\ run' = IF k = "video"
                              THEN Advance([run EXCEPT
                                      !.vals["text_from_video_audio"] = <<>>,
                                      !.vals["text_from_frames"] = <<>>,
                                      !.vals["text_from_video_frames"] = Join(<<>>)])
                              ELSE Advance([run EXCEPT !.vals[k \o "_text"] = <<>>])
    /\ UNCHANGED <<invVars, restVars>>

\* contradiction_in_complain_and_evidences(complaint, image_text, ...)
Contradiction(returns, contradicts) ==
    /\ At("contradiction")
    /\ LET r == [run EXCEPT !.called = @ \cup {"contradiction_in_complain_and_evidences"}]
       IN  run' = IF returns
                      THEN Advance([r EXCEPT
                              !.vals["contradiction_analysis"] = <<"analysis">>,
                              !.vals["has_contradiction"] = <<contradicts>>])
                      ELSE Raise(r, "contradiction")
    /\ UNCHANGED <<invVars, restVars>>

\* get_incident_details_from_text(complaint, image_text, ...); the details
\* may come back empty
IncidentDetails(returns, details) ==
    /\ At("details")
    /\ LET r == [run EXCEPT !.called = @ \cup {"get_incident_details_from_text"}]
       IN  run' = IF returns
                      THEN Advance([r EXCEPT !.vals["incident_details"] = details])
                      ELSE Raise(r, "details")
    /\ UNCHANGED <<invVars, restVars>>

\* get_narrative_summary(complaint, image_text, ...)
NarrativeSummary(returns) ==
    /\ At("summary")
    /\ LET r == [run EXCEPT !.called = @ \cup {"get_narrative_summary"}]
       IN  run' = IF returns
                      THEN Advance([r EXCEPT !.vals["narrative_summary"] = <<"summary">>])
                      ELSE Raise(r, "summary")
    /\ UNCHANGED <<invVars, restVars>>

\* classify_cybercrime(incident_details) if incident_details else ("Unknown", 0)
Classify(returns, label) ==
    /\ At("classify")
    /\ IF run.vals["incident_details"] # <<>>
           THEN LET r == [run EXCEPT !.called = @ \cup {"classify_cybercrime"}]
                IN  run' = IF returns
                               THEN Advance([r EXCEPT !.vals["classification"] = <<label>>,
                                                      !.vals["score"] = <<"score">>])
                               ELSE Raise(r, "classify")
           ELSE /\ returns
                /\ label = "Very Low"
                /\ run' = Advance([run EXCEPT !.vals["classification"] = <<"Unknown">>,
                                              !.vals["score"] = <<"0">>])
    /\ UNCHANGED <<invVars, restVars>>

\* the object the script prints last
Printed(op, vals) ==
    CASE op = "analyzeComplaint" ->
            ("details" :> vals["incident_details"]) @@
            ("summary" :> vals["narrative_summary"])
      [] op = "findContradictions" ->
            ("analysis" :> vals["contradiction_analysis"]) @@
            ("has_contradiction" :> vals["has_contradiction"])
      [] op = "completeAnalysis" ->
            ("contradiction_analysis" :> vals["contradiction_analysis"]) @@
            ("has_contradiction" :> vals["has_contradiction"]) @@
            ("incident_details" :> vals["incident_details"]) @@
            ("narrative_summary" :> vals["narrative_summary"]) @@
            ("classification" :> vals["classification"]) @@
            ("priority_score" :> vals["score"])
      [] op = "analyzeAudioFile" -> ("transcribed_text" :> vals["text"])
      [] op = "analyzeVideoFile" ->
            ("transcribed_audio" :> vals["text_from_video_audio"]) @@
            ("text_from_frames" :> vals["text_from_frames"])
      [] op \in {"analyzeImageFile", "analyzePdfFile"} ->
            ("extracted_text" :> vals["text"])

\* print(json.dumps({...}))
PrintResult ==
    /\ At("print")
    /\ run' = Advance(PrintJson(run, Printed(run.op, run.vals)))
    /\ UNCHANGED <<invVars, restVars>>

\* an adapter that goes on to the extraction without looking for the file
CheckFileSkipped ==
    /\ At("exists")
    /\ run' = Advance(run)
    /\ UNCHANGED <<invVars, restVars>>

\* if not path or not os.path.exists(path): print(json.dumps({"error": ...})); exit()
CheckFile ==
    /\ At("exists")
    /\ LET key == AdapterKey(run.op)
       IN  IF ~Truthy(run.data, key)
               THEN run' = Exit(PrintJson(run, "error" :> NotFound(run.op)))
               ELSE LET r == [run EXCEPT !.statted = @ \cup {run.data[key]}]
                    IN  run' = IF run.data[key] \in run.fs
                                   THEN Advance(r)
                                   ELSE Exit(PrintJson(r, "error" :> NotFound(run.op)))
    /\ UNCHANGED <<invVars, restVars>>

\* transcribed_text = extract_text_from_audio(audio_file_path), and the like
ExtractFile(returns) ==
    /\ At("extract")
    /\ LET k == AdapterKind(run.op)
           r == [run EXCEPT !.called = @ \cup {Routine(k)}]
       IN  run' = IF ~returns THEN Raise(r, "extract")
                  ELSE IF k = "video"
                      THEN Advance([r EXCEPT
                              !.vals["text_from_video_audio"] = <<"speech">>,
                              !.vals["text_from_frames"] = <<"frame1", "frame2">>])
                      ELSE Advance([r EXCEPT !.vals["text"] = <<k>>])
    /\ UNCHANGED <<invVars, restVars>>

\* the worker has ended: the 'close' handler of its invocation, the
\* operation's promise and the route's answer
ScriptClose ==
    /\ run.phase = "exited"
    /\ run' = Settle(run, CloseHandler(run.op, run.code, run.stdout, run.stderr))
    /\ UNCHANGED <<invVars, restVars>>

NextScript ==
    \/ Load
    \/ \E k \in Evidence, returns \in BOOLEAN : ExtractEvidence(k, returns)
    \/ \E returns \in BOOLEAN, contradicts \in {"true", "false"} :
          Contradiction(returns, contradicts)
    \/ \E returns \in BOOLEAN, details \in {<<>>, <<"details">>} : IncidentDetails(returns, details)
    \/ \E returns \in BOOLEAN : NarrativeSummary(returns)
    \/ \E returns \in BOOLEAN, label \in PriorityLabels : Classify(returns, label)
    \/ PrintResult
    \/ CheckFile
    \/ \E returns \in BOOLEAN : ExtractFile(returns)
    \/ ScriptClose

SpecScript == InitScript /\ [][NextScript]_vars

\* ---------------------------------------------- similarity check: one request
\* Scores and thresholds are tenths: 5 is 0.5.
\* records of the store that is compared with itself
MaxRecords == 3

CrossDefault == 5
WithinDefault == 3

\* a || b; a threshold that is left out is undefined
JsOr(a, b) == IF a = NoValue \/ (a.type = "number" /\ a.num = 0) THEN b ELSE a

\* dict.get(key, default)
Get(o, key, default) == IF key \in DOMAIN o THEN o[key] ELSE default

SimilarityRoutes == {"check-similarity", "check-similarity-advanced"}

\* a threshold of the request: left out, or a number of [0, 1]
RequestThresholds == {NoValue, JNumber(0), JNumber(4), JNumber(10)}

\* stores of n records, each with some of two identifiers; the ids of the
\* records of a store are all different
Stores(name, n) ==
    {[i \in 1..n |-> [id |-> <<name, i>>, idents |-> f[i]]] :
        f \in [1..n -> SUBSET {"phone", "account"}]}

\* the thresholds object the script finds in its payload, as a function from
\* the keys that are there to numbers
Supplied(cross, within) ==
    [k \in {key \in {"cross_threshold", "within_threshold"} :
                (key = "cross_threshold" /\ cross # NoValue)
                \/ (key = "within_threshold" /\ within # NoValue)} |->
        IF k = "cross_threshold" THEN cross.num ELSE within.num]

\* the payload of AIService.checkDatabaseSimilarity: check-similarity passes
\* the body on, check-similarity-advanced builds the thresholds itself
SimilarityPayload(route, cross, within) ==
    IF route = "check-similarity-advanced"
        THEN ("cross_threshold" :> JsOr(cross, JNumber(CrossDefault)).num) @@
             ("within_threshold" :> JsOr(within, JNumber(WithinDefault)).num)
        ELSE Supplied(cross, within)

\* the overlap of the identifiers of two records, 0 when either has none
Score(a, b) ==
    IF a.idents = {} \/ b.idents = {} THEN 0
    ELSE (10 * Cardinality(a.idents \cap b.idents)) \div Cardinality(a.idents \cup b.idents)

\* the pairs <<i, j>> of positions, in input order
RECURSIVE PairsFrom(_, _, _, _)
PairsFrom(i, j, n, m) ==
    IF i > n THEN <<>>
    ELSE IF j > m THEN PairsFrom(i + 1, 1, n, m)
    ELSE << <<i, j>> >> \o PairsFrom(i, j + 1, n, m)

\* stable sort by score, highest first
RECURSIVE Insert(_, _)
Insert(sorted, x) ==
    IF sorted = <<>> THEN <<x>>
    ELSE IF Head(sorted)[3] >= x[3] THEN <<Head(sorted)>> \o Insert(Tail(sorted), x)
    ELSE <<x>> \o sorted

RECURSIVE SortByScore(_)
SortByScore(ms) ==
    IF ms = <<>> THEN <<>>
    ELSE Insert(SortByScore(SubSeq(ms, 1, Len(ms) - 1)), ms[Len(ms)])

\* every record of store A against every record of store B
CrossDbMatch(db1, db2, threshold) ==
    LET pairs == PairsFrom(1, 1, Len(db1), Len(db2))
        all == [k \in 1..Len(pairs) |->
                   LET a == db1[pairs[k][1]]
                       b == db2[pairs[k][2]]
                   IN  <<a.id, b.id, Score(a, b)>>]
    IN  SortByScore(SelectSeq(all, LAMBDA m : m[3] >= threshold))

\* every unordered pair of two different records of one store
WithinDbMatch(db, threshold) ==
    LET pairs == SelectSeq(PairsFrom(1, 1, Len(db), Len(db)), LAMBDA q : q[1] < q[2])
        all == [k \in 1..Len(pairs) |->
                   LET a == db[pairs[k][1]]
                       b == db[pairs[k][2]]
                   IN  <<a.id, b.id, Score(a, b)>>]
    IN  SortByScore(SelectSeq(all, LAMBDA m : m[3] >= threshold))

NewSim(route, cross, within, db1, db2) ==
    [phase |-> "request", route |-> route, cross |-> cross, within |-> within,
     db1 |-> db1, db2 |-> db2, payload |-> EmptyObj, cross_th |-> 0, within_th |-> 0,
     cross_db_matches |-> <<>>, within_db_matches |-> <<>>, status |-> 0]

InitSimilarity ==
    /\ inv = [c \in Calls |-> IdleCall]
    /\ procs = <<>>
    /\ crashed = FALSE
    /\ run = NoRun
    /\ waiting = Calls
    /\ phone = Idle
    /\ auth = Idle
    /\ client = Idle
    /\ desk = Idle
    /\ batch = Idle
    /\ boot = Idle
    /\ \E route \in SimilarityRoutes, cross \in RequestThresholds, within \in RequestThresholds :
          \E db1 \in Stores("victim", MaxRecords), db2 \in Stores("official", 1) :
              sim = NewSim(route, cross, within, db1, db2)

simOther == <<inv, procs, crashed, run, waiting, phone, auth, client, desk, batch, boot>>

\* the route hands the request to AIService.checkDatabaseSimilarity
SimilarityRoute ==
    /\ sim.phase = "request"
    /\ sim' = [sim EXCEPT !.phase = "called",
                          !.payload = SimilarityPayload(sim.route, sim.cross, sim.within)]
    /\ UNCHANGED simOther

\* cross_th = thresholds.get('cross_threshold', 0.5), and within_th
ReadThresholds ==
    /\ sim.phase = "called"
    /\ sim' = [sim EXCEPT !.phase = "loaded",
                          !.cross_th = Get(sim.payload, "cross_threshold", CrossDefault),
                          !.within_th = Get(sim.payload, "within_threshold", WithinDefault)]
    /\ UNCHANGED simOther

\* the cross matcher called with the threshold of the other mode
CrossCallWithinThreshold(s) == CrossDbMatch(s.db1, s.db2, s.within_th)

\* db.cross_db_match(db1, db2, threshold=cross_th)
CrossCall(s) == CrossDbMatch(s.db1, s.db2, s.cross_th)

CrossMatch ==
    /\ sim.phase = "loaded"
    /\ sim' = [sim EXCEPT !.phase = "crossed", !.cross_db_matches = CrossCall(sim)]
    /\ UNCHANGED simOther

\* the within matches taken from the cross matcher run on the store twice
WithinCallAsCross(s) == CrossDbMatch(s.db1, s.db1, s.within_th)

\* db.within_db_match(db1, threshold=within_th)
WithinCall(s) == WithinDbMatch(s.db1, s.within_th)

WithinMatch ==
    /\ sim.phase = "crossed"
    /\ sim' = [sim EXCEPT !.phase = "matched", !.within_db_matches = WithinCall(sim)]
    /\ UNCHANGED simOther

\* print(json.dumps({"cross_db_matches": cross, "within_db_matches": within})),
\* parsed by the 'close' handler and answered by the route with 200
SimilarityAnswer ==
    /\ sim.phase = "matched"
    /\ sim' = [sim EXCEPT !.phase = "answered", !.status = 200]
    /\ UNCHANGED simOther

NextSimilarity ==
    \/ SimilarityRoute
    \/ ReadThresholds
    \/ CrossMatch
    \/ WithinMatch
    \/ SimilarityAnswer

SpecSimilarity == InitSimilarity /\ [][NextSimilarity]_vars

\* ------------------------------------------------ phone numbers: one number
\* A phone number is a sequence of one-character strings.
\* pieces an input is put together from
MaxBlocks == 5

Digits == {"0", "1", "2", "3", "4", "5", "6", "7", "8", "9"}
Null == <<"null">>

Blocks ==
    { <<"+", "9", "1">>, <<"9", "1">>, <<"0">>, <<" ">>, <<"-">>,
      <<"9", "8", "7", "6", "5">>, <<"4", "3", "2", "1", "0">>,
      <<"9", "1", "9", "8", "7">>, <<"5", "8", "7", "6", "5">> }

RECURSIVE Concat(_, _)
Concat(f, n) == IF n = 0 THEN <<>> ELSE Concat(f, n - 1) \o f[n]

StartsWith(t, prefix) ==
    Len(t) >= Len(prefix) /\ SubSeq(t, 1, Len(prefix)) = prefix

\* phoneNumber.replace(/[^0-9+]/g, '')
Cleaned(t) == SelectSeq(t, LAMBDA ch : ch \in Digits \cup {"+"})

\* a prefix taken off whatever the length of the number
StripPrefixAnyLength(cleaned) ==
    IF StartsWith(cleaned, <<"+", "9", "1">>)
        THEN SubSeq(cleaned, 4, Len(cleaned))
    ELSE IF StartsWith(cleaned, <<"9", "1">>)
        THEN SubSeq(cleaned, 3, Len(cleaned))
    ELSE IF StartsWith(cleaned, <<"0">>)
        THEN SubSeq(cleaned, 2, Len(cleaned))
    ELSE cleaned

\* the length of a number with its country code taken one too short
StripPrefixWrongLength(cleaned) ==
    IF StartsWith(cleaned, <<"+", "9", "1">>) /\ Len(cleaned) = 12
        THEN SubSeq(cleaned, 4, Len(cleaned))
    ELSE IF StartsWith(cleaned, <<"9", "1">>) /\ Len(cleaned) = 12
        THEN SubSeq(cleaned, 3, Len(cleaned))
    ELSE IF StartsWith(cleaned, <<"0">>) /\ Len(cleaned) = 11
        THEN SubSeq(cleaned, 2, Len(cleaned))
    ELSE cleaned

\* the country code or the trunk prefix of a number of the matching length
StripPrefix(cleaned) ==
    IF StartsWith(cleaned, <<"+", "9", "1">>) /\ Len(cleaned) = 13
        THEN SubSeq(cleaned, 4, Len(cleaned))
    ELSE IF StartsWith(cleaned, <<"9", "1">>) /\ Len(cleaned) = 12
        THEN SubSeq(cleaned, 3, Len(cleaned))
    ELSE IF StartsWith(cleaned, <<"0">>) /\ Len(cleaned) = 11
        THEN SubSeq(cleaned, 2, Len(cleaned))
    ELSE cleaned

\* /^[6-9]\d{9}$/
IsIndianMobile(t) ==
    /\ Len(t) = 10
    /\ t[1] \in {"6", "7", "8", "9"}
    /\ \A i \in 2..10 : t[i] \in Digits

validateAndFormatIndianNumber(phoneNumber) ==
    IF phoneNumber = <<>> THEN Null
    ELSE LET cleaned == StripPrefix(Cleaned(phoneNumber))
         IN  IF IsIndianMobile(cleaned) THEN <<"+", "9", "1">> \o cleaned ELSE Null

InitPhone ==
    /\ inv = [c \in Calls |-> IdleCall]
    /\ procs = <<>>
    /\ crashed = FALSE
    /\ run = NoRun
    /\ waiting = Calls
    /\ sim = Idle
    /\ auth = Idle
    /\ client = Idle
    /\ desk = Idle
    /\ batch = Idle
    /\ boot = Idle
    /\ \E f \in [1..MaxBlocks -> Blocks \cup {<<>>}] :
          phone = [phase |-> "input", input |-> Concat(f, MaxBlocks),
                   result |-> Null, second |-> Null, again |-> Null]

\* const formattedPhone = validateAndFormatIndianNumber(phone_number)
Normalize ==
    /\ phone.phase = "input"
    /\ phone' = [phone EXCEPT !.phase = "normalized",
                              !.result = validateAndFormatIndianNumber(phone.input)]
    /\ UNCHANGED <<inv, procs, crashed, run, waiting, sim, auth, client, desk, batch, boot>>

\* the same input once more, and the value that was returned
NormalizeAgain ==
    /\ phone.phase = "normalized"
    /\ phone' = [phone EXCEPT !.phase = "renormalized",
                              !.second = validateAndFormatIndianNumber(phone.input),
                              !.again = IF phone.result = Null THEN Null
                                        ELSE validateAndFormatIndianNumber(phone.result)]
    /\ UNCHANGED <<inv, procs, crashed, run, waiting, sim, auth, client, desk, batch, boot>>

NextPhone == Normalize \/ NormalizeAgain

SpecPhone == InitPhone /\ [][NextPhone]_vars

\* ------------------------------------------------ accounts and one-time codes
\* Time is counted in lifetimes of a one-time code (5 minutes).
\* how far the clock runs
MaxTime == 2

OtpLifetime == 1

Users == {"u1", "u2"}
Otps == {"123456", "654321"}
Passwords == {"secret", "guess"}

\* a row of the users table; state "none" is a user_id without a row,
\* password "" and otp "" are NULL.  issuedBy, creds and acceptedFrom keep
\* the history of the row: the route that issued the stored code, whether a
\* credentials check ever succeeded, and the route that had issued the code
\* the last successful login-verify accepted.
NoUser ==
    [state |-> "none", password_hash |-> "", otp |-> "", otp_expiry |-> 0,
     issuedBy |-> "none", creds |-> FALSE, acceptedFrom |-> "none"]

InitAuth ==
    /\ inv = [c \in Calls |-> IdleCall]
    /\ procs = <<>>
    /\ crashed = FALSE
    /\ run = NoRun
    /\ waiting = Calls
    /\ sim = Idle
    /\ phone = Idle
    /\ client = Idle
    /\ desk = Idle
    /\ batch = Idle
    /\ boot = Idle
    /\ auth = [phase |-> "serving", now |-> 0, users |-> [u \in Users |-> NoUser],
               last |-> [route |-> "none", user |-> "none", status |-> 0]]

authOther == <<inv, procs, crashed, run, waiting, sim, phone, client, desk, batch, boot>>

\* the state after a route answered: the rows as the route left them
Answered(route, u, status, row) ==
    [auth EXCEPT !.users[u] = row,
                 !.last = [route |-> route, user |-> u, status |-> status]]

\* new Date() > new Date(user.otp_expiry)
Expired(row) == auth.now > row.otp_expiry

\* POST /api/auth/register
Register(u, valid, otp) ==
    /\ LET row == auth.users[u]
       IN  auth' =
             IF ~valid THEN Answered("register", u, 400, row)
             ELSE IF row.state # "none" THEN Answered("register", u, 409, row)
             ELSE Answered("register", u, 201,
                     [row EXCEPT !.state = "registered", !.otp = otp,
                                 !.otp_expiry = auth.now + OtpLifetime,
                                 !.issuedBy = "register"])
    /\ UNCHANGED authOther

\* a verify-otp that takes a code whatever its age
VerifyOtpNoExpiry(u, otp, password) ==
    /\ LET row == auth.users[u]
       IN  auth' =
             IF otp = "" \/ password = "" THEN Answered("verify-otp", u, 400, row)
             ELSE IF row.state = "none" THEN Answered("verify-otp", u, 404, row)
             ELSE IF row.otp # otp THEN Answered("verify-otp", u, 400, row)
             ELSE Answered("verify-otp", u, 200,
                     [row EXCEPT !.state = "verified", !.password_hash = password,
                                 !.otp = "", !.otp_expiry = 0, !.issuedBy = "none"])
    /\ UNCHANGED authOther

\* a verify-otp that withdraws the stored code after a wrong attempt
VerifyOtpBurnsCode(u, otp, password) ==
    /\ LET row == auth.users[u]
       IN  auth' =
             IF otp = "" \/ password = "" THEN Answered("verify-otp", u, 400, row)
             ELSE IF row.state = "none" THEN Answered("verify-otp", u, 404, row)
             ELSE IF row.otp # otp
                 THEN Answered("verify-otp", u, 400, [row EXCEPT !.otp = "", !.otp_expiry = 0])
             ELSE IF Expired(row) THEN Answered("verify-otp", u, 400, row)
             ELSE Answered("verify-otp", u, 200,
                     [row EXCEPT !.state = "verified", !.password_hash = password,
                                 !.otp = "", !.otp_expiry = 0, !.issuedBy = "none"])
    /\ UNCHANGED authOther

\* POST /api/auth/verify-otp
VerifyOtp(u, otp, password) ==
    /\ LET row == auth.users[u]
       IN  auth' =
             IF otp = "" \/ password = "" THEN Answered("verify-otp", u, 400, row)
             ELSE IF row.state = "none" THEN Answered("verify-otp", u, 404, row)
             ELSE IF row.otp # otp THEN Answered("verify-otp", u, 400, row)
             ELSE IF Expired(row) THEN Answered("verify-otp", u, 400, row)
             ELSE Answered("verify-otp", u, 200,
                     [row EXCEPT !.state = "verified", !.password_hash = password,
                                 !.otp = "", !.otp_expiry = 0, !.issuedBy = "none"])
    /\ UNCHANGED authOther

\* POST /api/auth/login
Login(u, password, otp) ==
    /\ LET row == auth.users[u]
       IN  auth' =
             IF password = "" THEN Answered("login", u, 400, row)
             ELSE IF row.state = "none" THEN Answered("login", u, 404, row)
             ELSE IF row.state # "verified" THEN Answered("login", u, 400, row)
             ELSE IF row.password_hash # password THEN Answered("login", u, 401, row)
             ELSE Answered("login", u, 200,
                     [row EXCEPT !.otp = otp, !.otp_expiry = auth.now + OtpLifetime,
                                 !.issuedBy = "login", !.creds = TRUE])
    /\ UNCHANGED authOther

\* user.otp !== otp is the only test of the code
OtpMatches(row, otp) == row.otp = otp

\* a login-verify that leaves the accepted code in the row
LoginVerifyKeepsCode(u, otp) ==
    /\ LET row == auth.users[u]
       IN  auth' =
             IF otp = "" THEN Answered("login-verify", u, 400, row)
             ELSE IF row.state = "none" THEN Answered("login-verify", u, 404, row)
             ELSE IF ~OtpMatches(row, otp) THEN Answered("login-verify", u, 400, row)
             ELSE IF Expired(row) THEN Answered("login-verify", u, 400, row)
             ELSE Answered("login-verify", u, 200,
                     [row EXCEPT !.acceptedFrom = row.issuedBy])
    /\ UNCHANGED authOther

\* POST /api/auth/login-verify
LoginVerify(u, otp) ==
    /\ LET row == auth.users[u]
       IN  auth' =
             IF otp = "" THEN Answered("login-verify", u, 400, row)
             ELSE IF row.state = "none" THEN Answered("login-verify", u, 404, row)
             ELSE IF ~OtpMatches(row, otp) THEN Answered("login-verify", u, 400, row)
             ELSE IF Expired(row) THEN Answered("login-verify", u, 400, row)
             ELSE Answered("login-verify", u, 200,
                     [row EXCEPT !.otp = "", !.otp_expiry = 0, !.issuedBy = "none",
                                 !.acceptedFrom = row.issuedBy])
    /\ UNCHANGED authOther

\* POST /api/auth/logout: an UPDATE that matches no row changes nothing
Logout(u) ==
    /\ LET row == auth.users[u]
       IN  auth' =
             IF row.state = "none" THEN Answered("logout", u, 200, row)
             ELSE Answered("logout", u, 200,
                     [row EXCEPT !.otp = "", !.otp_expiry = 0, !.issuedBy = "none"])
    /\ UNCHANGED authOther

\* time passes
Tick ==
    /\ auth.now < MaxTime
    /\ auth' = [auth EXCEPT !.now = @ + 1]
    /\ UNCHANGED authOther

NextAuth ==
    \/ \E u \in Users, valid \in BOOLEAN, otp \in Otps : Register(u, valid, otp)
    \/ \E u \in Users, otp \in Otps \cup {""}, password \in Passwords \cup {""} :
          VerifyOtp(u, otp, password)
    \/ \E u \in Users, password \in Passwords \cup {""}, otp \in Otps : Login(u, password, otp)
    \/ \E u \in Users, otp \in Otps \cup {""} : LoginVerify(u, otp)
    \/ \E u \in Users : Logout(u)
    \/ Tick

SpecAuth == InitAuth /\ [][NextAuth]_vars

\* ------------------------------------------------------ the client: one browser
\* The web client in one browser tab: the location, the pending router.push,
\* localStorage, the request in flight and its answer.  router.push starts
\* a transition that completes later; window.location.href loads at once.
\* Effects run after a page is shown and before the user can act on it.
Paths == {"/login", "/register", "/login-verify", "/dashboard"}
publicRoutes == {"/login", "/register", "/verify-otp"}
ApiCalls == {"login", "loginVerify", "getDashboard"}
\* 0: the request got no response (network error, timeout)
Statuses == {0, 200, 400, 401, 500}
\* localStorage.getItem of a key that is not stored
NoItem == "null"
\* response.data.token: the server's login-verify answer has no token
ResponseTokens == {"undefined"}
NoAnswer == [status |-> -1, token |-> ""]

isAuthenticated(c) == c.auth_token # NoItem /\ c.user_data # NoItem

\* localStorage.setItem stores String(value)
setAuthData(c, token, user) == [c EXCEPT !.auth_token = token, !.user_data = user]

clearAuthData(c) == [c EXCEPT !.auth_token = NoItem, !.user_data = NoItem]

\* window.location.href = path, or opening path in the address bar
OpenPage(c, path) ==
    [c EXCEPT !.path = path, !.pushing = "", !.effects = TRUE, !.userId = NoItem,
              !.inflight = "none"]

InitClient ==
    /\ inv = [c \in Calls |-> IdleCall]
    /\ procs = <<>>
    /\ crashed = FALSE
    /\ run = NoRun
    /\ waiting = Calls
    /\ sim = Idle
    /\ phone = Idle
    /\ auth = Idle
    /\ desk = Idle
    /\ batch = Idle
    /\ boot = Idle
    /\ client = [phase |-> "open", path |-> "/login", pushing |-> "", effects |-> TRUE,
                 auth_token |-> NoItem, user_data |-> NoItem, login_user_id |-> NoItem,
                 userId |-> NoItem, inflight |-> "none", answer |-> NoAnswer,
                 verified |-> FALSE]

clientOther == <<inv, procs, crashed, run, waiting, sim, phone, auth, desk, batch, boot>>

\* Layout, useEffect on [pathname, router]: the path it pushes, "" for none
LayoutEffect(c) ==
    LET isPublicRoute == c.path \in publicRoutes
    IN  IF ~isPublicRoute /\ ~isAuthenticated(c) THEN "/login"
        ELSE IF isPublicRoute /\ isAuthenticated(c) THEN "/dashboard"
        ELSE ""

\* LoginVerifyPage, useEffect on mount: the path it pushes, "" for none
LoginVerifyPageEffect(c) ==
    IF c.path = "/login-verify" /\ c.login_user_id = NoItem THEN "/login" ELSE ""

\* the effects of the page shown and then of Layout; the last push wins
Effects ==
    /\ client.phase = "open" /\ client.effects /\ client.answer = NoAnswer
    /\ LET page == LoginVerifyPageEffect(client)
           guard == LayoutEffect(client)
           pushed == IF guard # "" THEN guard ELSE page
       IN  client' = [client EXCEPT
                !.effects = FALSE,
                !.userId = IF client.path = "/login-verify" THEN client.login_user_id ELSE @,
                !.pushing = IF pushed # "" THEN pushed ELSE @]
    /\ UNCHANGED clientOther

\* a router.push completes: the new page is shown
Arrive ==
    /\ client.phase = "open" /\ client.pushing # "" /\ client.answer = NoAnswer
    /\ ~client.effects
    /\ client' = [client EXCEPT
            !.path = client.pushing, !.pushing = "",
            !.effects = (client.pushing # client.path),
            !.userId = IF client.pushing # client.path THEN NoItem ELSE @]
    /\ UNCHANGED clientOther

\* the user opens a page by its address
Navigate(path) ==
    /\ client.phase = "open" /\ ~client.effects /\ client.answer = NoAnswer
    /\ client' = OpenPage(client, path)
    /\ UNCHANGED clientOther

\* LoginPage.onSubmit, LoginVerifyPage.onSubmit and a page's data request,
\* up to the await
Request(call) ==
    /\ client.phase = "open" /\ ~client.effects /\ client.answer = NoAnswer
    /\ client.inflight = "none"
    /\ call = "login" => client.path = "/login"
    /\ call = "loginVerify" => (client.path = "/login-verify" /\ client.userId # NoItem)
    /\ call = "getDashboard" => client.path = "/dashboard"
    /\ client' = [client EXCEPT !.inflight = call]
    /\ UNCHANGED clientOther

\* a response interceptor that forgets the token only
ResponseInterceptorTokenOnly(c, status) ==
    IF status = 401
        THEN OpenPage([c EXCEPT !.auth_token = NoItem], "/login")
        ELSE c

\* api.interceptors.response
ResponseInterceptor(c, status) ==
    IF status = 401
        THEN OpenPage([c EXCEPT !.auth_token = NoItem, !.user_data = NoItem], "/login")
        ELSE c

\* the response of the request in flight arrives
Response(status, token) ==
    /\ client.phase = "open" /\ client.inflight # "none" /\ client.answer = NoAnswer
    /\ client' = [ResponseInterceptor(client, status) EXCEPT
            !.inflight = client.inflight,
            !.answer = [status |-> status, token |-> token]]
    /\ UNCHANGED clientOther

\* the rest of onSubmit after the await: try, catch, finally
Continue ==
    /\ client.phase = "open" /\ client.answer # NoAnswer
    /\ LET ok == client.answer.status = 200
           done == [client EXCEPT !.inflight = "none", !.answer = NoAnswer]
       IN  client' =
             IF ok /\ client.inflight = "login"
                 THEN [done EXCEPT !.login_user_id = "u1", !.pushing = "/login-verify"]
             ELSE IF ok /\ client.inflight = "loginVerify"
                 THEN [setAuthData(done, client.answer.token, "user") EXCEPT
                          !.login_user_id = NoItem, !.pushing = "/dashboard",
                          !.verified = TRUE]
             ELSE done
    /\ UNCHANGED clientOther

\* Navbar.handleLogout
NavbarLogout ==
    /\ client.phase = "open" /\ ~client.effects /\ client.answer = NoAnswer
    /\ ~(client.path \in publicRoutes)
    /\ client' = [clearAuthData(client) EXCEPT !.pushing = "/login", !.verified = FALSE]
    /\ UNCHANGED clientOther

NextClient ==
    \/ Effects
    \/ Arrive
    \/ \E path \in Paths : Navigate(path)
    \/ \E call \in ApiCalls : Request(call)
    \/ \E status \in Statuses, token \in ResponseTokens : Response(status, token)
    \/ Continue
    \/ NavbarLogout

SpecClient == InitClient /\ [][NextClient]_vars

\* ------------------------------------------ officers and lawful data requests
\* rows the data_requests table may hold
MaxRequests == 2

\* the users table as the officer routes see it: user_id -> role
DeskRoles == [o1 |-> "OFFICER", o2 |-> "OFFICER", u1 |-> "USER"]
DeskUsers == DOMAIN DeskRoles
\* user_id of a request body: a user, an unknown id, none
DeskIds == DeskUsers \cup {"nobody", ""}

NoToken == [kind |-> "none", user_id |-> "", role |-> ""]
\* a token jwt.verify throws on: bad signature, expired, not a JWT
InvalidToken == [kind |-> "invalid", user_id |-> "", role |-> ""]
Signed(user_id, role) == [kind |-> "signed", user_id |-> user_id, role |-> role]
\* a token signed with JWT_SECRET that carries another role
CitizenToken == Signed("u1", "USER")

\* transport of a request body; "undefined" takes the default 'email',
\* "null" is stored as NULL
Transports == {"undefined", "email", "pdf", "fax", "null"}
NoAnswerYet == [route |-> "none", status |-> 0, officer |-> "", ran |-> FALSE,
                rows |-> <<>>]

InitDesk ==
    /\ inv = [c \in Calls |-> IdleCall]
    /\ procs = <<>>
    /\ crashed = FALSE
    /\ run = NoRun
    /\ waiting = Calls
    /\ sim = Idle
    /\ phone = Idle
    /\ auth = Idle
    /\ client = Idle
    /\ batch = Idle
    /\ boot = Idle
    /\ desk = [phase |-> "serving", issued |-> {}, rows |-> <<>>, sending |-> 0,
               last |-> NoAnswerYet]

deskOther == <<inv, procs, crashed, run, waiting, sim, phone, auth, client, batch, boot>>

\* the tokens a request may carry
RequestTokens == desk.issued \cup {NoToken, InvalidToken, CitizenToken}

\* POST /api/officer/login
OfficerLogin(user_id) ==
    /\ desk.phase = "serving"
    /\ LET status == IF user_id = "" THEN 400
                     ELSE IF ~(user_id \in DeskUsers) THEN 404
                     ELSE IF DeskRoles[user_id] # "OFFICER" THEN 403
                     ELSE 200
       IN  desk' = [desk EXCEPT
                !.issued = IF status = 200 THEN @ \cup {Signed(user_id, "OFFICER")} ELSE @,
                !.last = [NoAnswerYet EXCEPT !.route = "officer-login", !.status = status,
                                             !.officer = user_id]]
    /\ UNCHANGED deskOther

\* a requireOfficer that asks for a valid token only
requireOfficerAnyRole(token) ==
    IF token.kind = "none" THEN 401
    ELSE IF token.kind = "invalid" THEN 401
    ELSE 0

\* requireOfficer: the status it answers, 0 when it calls next()
requireOfficer(token) ==
    IF token.kind = "none" THEN 401
    ELSE IF token.kind = "invalid" THEN 401
    ELSE IF token.role # "OFFICER" THEN 403
    ELSE 0

Refused(route, status) ==
    [desk EXCEPT !.last = [NoAnswerYet EXCEPT !.route = route, !.status = status]]

\* transport VARCHAR(10) DEFAULT 'email' CHECK (transport IN ('email','pdf'))
TransportAccepted(transport) == transport \in {"email", "pdf", "null"}

\* POST /api/data-request up to the await of sendMail, or to the answer
\* when no mail is sent
CreateDataRequest(token, complete, transport) ==
    /\ desk.phase = "serving" /\ desk.sending = 0
    /\ Len(desk.rows) < MaxRequests
    /\ LET gate == requireOfficer(token)
           stored == IF transport = "undefined" THEN "email" ELSE transport
           row == [officer_id |-> token.user_id, transport |-> stored,
                   email_status |-> "pending"]
           ran == [NoAnswerYet EXCEPT !.route = "data-request", !.ran = TRUE,
                                      !.officer = token.user_id]
       IN  desk' =
             IF gate # 0 THEN Refused("data-request", gate)
             ELSE IF ~complete THEN [desk EXCEPT !.last = [ran EXCEPT !.status = 400]]
             ELSE IF ~TransportAccepted(stored)
                 THEN [desk EXCEPT !.last = [ran EXCEPT !.status = 500]]
             ELSE IF stored = "email"
                 THEN [desk EXCEPT !.rows = Append(@, row), !.sending = Len(desk.rows) + 1,
                                   !.last = ran]
             ELSE [desk EXCEPT !.rows = Append(@, row),
                               !.last = [ran EXCEPT !.status = 201, !.rows = <<row>>]]
    /\ UNCHANGED deskOther

\* POST /api/data-request from the end of sendMail to the answer
MailDone(sent) ==
    /\ desk.phase = "serving" /\ desk.sending # 0
    /\ LET email_status == IF sent THEN "sent" ELSE "failed"
           saved == [desk.rows[desk.sending] EXCEPT !.email_status = email_status]
       IN  desk' = [desk EXCEPT
                !.rows[desk.sending] = saved, !.sending = 0,
                !.last = [NoAnswerYet EXCEPT !.route = "data-request", !.ran = TRUE,
                             !.officer = saved.officer_id, !.status = 201,
                             !.rows = <<saved>>]]
    /\ UNCHANGED deskOther

\* SELECT * FROM data_requests WHERE officer_id = ...
RECURSIVE RowsOf(_, _)
RowsOf(rows, officer_id) ==
    IF rows = <<>> THEN <<>>
    ELSE (IF Head(rows).officer_id = officer_id THEN <<Head(rows)>> ELSE <<>>)
         \o RowsOf(Tail(rows), officer_id)

\* GET /api/data-requests
ListDataRequests(token) ==
    /\ desk.phase = "serving"
    /\ LET gate == requireOfficer(token)
       IN  desk' =
             IF gate # 0 THEN Refused("data-requests", gate)
             ELSE [desk EXCEPT !.last =
                     [route |-> "data-requests", status |-> 200, officer |-> token.user_id,
                      ran |-> TRUE, rows |-> RowsOf(desk.rows, token.user_id)]]
    /\ UNCHANGED deskOther

NextDesk ==
    \/ \E user_id \in DeskIds : OfficerLogin(user_id)
    \/ \E token \in RequestTokens, complete \in BOOLEAN, transport \in Transports :
          CreateDataRequest(token, complete, transport)
    \/ \E sent \in BOOLEAN : MailDone(sent)
    \/ \E token \in RequestTokens : ListDataRequests(token)

SpecDesk == InitDesk /\ [][NextDesk]_vars

\* -------------------------------------------------- analyze-batch: one request
\* files of one analyze-batch request
MaxFiles == 2

\* an element of files: null, an object without file_type, or an object
\* with the file_type named
FileEntries == {"null", "undefined", "audio", "PDF", "doc"}
BatchTypes == {"audio", "video", "image", "pdf"}
toLowerCase(file_type) == IF file_type = "PDF" THEN "pdf" ELSE file_type

\* req.body.files: no array, or an array of up to MaxFiles elements
NotArray == <<"no array">>
FilesOf(n) == [1..n -> FileEntries]
BatchBodies == {NotArray} \cup UNION {FilesOf(n) : n \in 0..MaxFiles}

\* how an AIService adapter call of the batch ends: the promise resolves,
\* it rejects, or spawn emits 'error' and no listener takes it
AdapterEnds == {"resolved", "rejected", "error"}

InitBatch ==
    /\ inv = [c \in Calls |-> IdleCall]
    /\ procs = <<>>
    /\ crashed = FALSE
    /\ run = NoRun
    /\ waiting = Calls
    /\ sim = Idle
    /\ phone = Idle
    /\ auth = Idle
    /\ client = Idle
    /\ desk = Idle
    /\ boot = Idle
    /\ batch = [phase |-> "idle", isArray |-> FALSE, files |-> <<>>, next |-> 1,
                results |-> <<>>, alive |-> 0, spawned |-> {}, status |-> 0]

batchOther == <<inv, procs, crashed, run, waiting, sim, phone, auth, client, desk, boot>>

\* POST /api/ai/analyze-batch up to the loop
BatchRequest(files) ==
    /\ batch.phase = "idle"
    /\ batch' =
         IF files = NotArray \/ files = <<>>
             THEN [batch EXCEPT !.phase = "answered", !.status = 400,
                                !.isArray = (files # NotArray)]
             ELSE [batch EXCEPT !.phase = "running", !.files = files, !.isArray = TRUE]
    /\ UNCHANGED batchOther

Entry(kind) ==
    [index |-> batch.next, file_type |-> batch.files[batch.next], kind |-> kind]

\* one turn of the loop, up to the await of the adapter or to the push
BatchFile ==
    /\ batch.phase = "running" /\ batch.alive = 0
    /\ batch.next <= Len(batch.files)
    /\ LET file == batch.files[batch.next]
       IN  batch' =
             IF file = "null"
                 THEN [batch EXCEPT !.phase = "answered", !.status = 500]
             ELSE IF file = "undefined"
                 THEN [batch EXCEPT !.results = Append(@, Entry("error")), !.next = @ + 1]
             ELSE IF toLowerCase(file) \in BatchTypes
                 THEN [batch EXCEPT !.alive = @ + 1, !.spawned = @ \cup {batch.next}]
             ELSE [batch EXCEPT !.results = Append(@, Entry("unsupported")), !.next = @ + 1]
    /\ UNCHANGED batchOther

\* the awaited adapter call ends
BatchAdapterEnds(how) ==
    /\ batch.phase = "running" /\ batch.alive = 1
    /\ batch' =
         IF how = "error"
             THEN [batch EXCEPT !.phase = "crashed", !.alive = 0]
             ELSE [batch EXCEPT
                     !.alive = 0, !.next = @ + 1,
                     !.results = Append(@, Entry(IF how = "resolved" THEN "result"
                                                                      ELSE "error"))]
    /\ UNCHANGED batchOther

\* res.status(200).json({ results })
BatchAnswer ==
    /\ batch.phase = "running" /\ batch.alive = 0
    /\ batch.next > Len(batch.files)
    /\ batch' = [batch EXCEPT !.phase = "answered", !.status = 200]
    /\ UNCHANGED batchOther

NextBatch ==
    \/ \E files \in BatchBodies : BatchRequest(files)
    \/ BatchFile
    \/ \E how \in AdapterEnds : BatchAdapterEnds(how)
    \/ BatchAnswer

SpecBatch == InitBatch /\ [][NextBatch]_vars

\* ------------------------------------------------------ the server: start-up
\* connection attempts counted while the server starts and runs
MaxHits == 3

\* the statements initDB awaits, one after another
InitStatements == 17

\* the routes that answer with dbReady
BootRoutes == {"/health", "/"}

InitBoot ==
    /\ inv = [c \in Calls |-> IdleCall]
    /\ procs = <<>>
    /\ crashed = FALSE
    /\ run = NoRun
    /\ waiting = Calls
    /\ sim = Idle
    /\ phone = Idle
    /\ auth = Idle
    /\ client = Idle
    /\ desk = Idle
    /\ batch = Idle
    /\ boot = [phase |-> "init", done |-> 0, failed |-> FALSE, dbReady |-> FALSE,
               listening |-> FALSE, refused |-> 0, served |-> 0,
               last |-> [route |-> "none", dbReady |-> FALSE]]

bootOther == <<inv, procs, crashed, run, waiting, sim, phone, auth, client, desk, batch>>

\* initDB: the next statement succeeds
InitStatement ==
    /\ boot.phase = "init" /\ boot.done < InitStatements
    /\ boot' = [boot EXCEPT !.done = @ + 1]
    /\ UNCHANGED bootOther

\* an initDB whose catch logs the error and returns
InitFailsLogged ==
    /\ boot.phase = "init" /\ boot.done < InitStatements
    /\ boot' = [boot EXCEPT !.failed = TRUE, !.done = InitStatements]
    /\ UNCHANGED bootOther

\* initDB: the next statement throws; catch: process.exit(1)
InitFails ==
    /\ boot.phase = "init" /\ boot.done < InitStatements
    /\ boot' = [boot EXCEPT !.failed = TRUE, !.phase = "exited"]
    /\ UNCHANGED bootOther

\* initDB().then(...): dbReady = true; app.listen(PORT, ...)
InitThen ==
    /\ boot.phase = "init" /\ boot.done = InitStatements
    /\ boot' = [boot EXCEPT !.dbReady = TRUE, !.phase = "binding"]
    /\ UNCHANGED bootOther

\* the port is bound: the callback of app.listen
Listening ==
    /\ boot.phase = "binding"
    /\ boot' = [boot EXCEPT !.phase = "listening", !.listening = TRUE]
    /\ UNCHANGED bootOther

\* a client connects and asks for a route
Connect(route) ==
    /\ boot' =
         IF boot.listening
             THEN [boot EXCEPT !.served = @ + 1,
                               !.last = [route |-> route, dbReady |-> boot.dbReady]]
             ELSE [boot EXCEPT !.refused = @ + 1]
    /\ IF boot.listening THEN boot.served < MaxHits ELSE boot.refused < MaxHits
    /\ UNCHANGED bootOther

NextBoot ==
    \/ InitStatement
    \/ InitFails
    \/ InitThen
    \/ Listening
    \/ \E route \in BootRoutes : Connect(route)

SpecBoot == InitBoot /\ [][NextBoot]_vars

\* ------------------------------------------------- the invocation layer: claims
Spawned(c) == inv[c].pid \in DOMAIN procs
Worker(c) == procs[inv[c].pid]
Closed(c) == Spawned(c) /\ Worker(c).state = "closed"

\* the diagnostics of a failed worker: what it wrote to stderr, or, when
\* that is empty, what it wrote to stdout
Diagnostics(c) == IF Worker(c).err # <<>> THEN Worker(c).err ELSE Worker(c).out

\* C1: a worker of #runPythonInline that closes with status 0 and whose whole
\* stdout is one JSON value resolves the invocation with exactly that value;
\* the operation resolves with it and the route answers 200 with it.
C1_ParsedValueReturned ==
    \A c \in Calls :
        ( /\ inv[c].op \in InlineOps
          /\ Closed(c)
          /\ Worker(c).code = 0
          /\ JSONParse(Worker(c).out) # SyntaxError )
        => /\ inv[c].promise = Resolved(JSONParse(Worker(c).out))
           /\ inv[c].outcome = Resolved(JSONParse(Worker(c).out))
           /\ inv[c].response.status = 200
           /\ inv[c].response.body = JSONParse(Worker(c).out)

C1_Witness ==
    \E c \in Calls :
        /\ inv[c].op \in InlineOps
        /\ Closed(c)
        /\ Worker(c).code = 0
        /\ Worker(c).out = <<DIGIT, WS>>
        /\ inv[c].promise = Resolved(JNumber(1))

C3_SpawnFailureRejected ==
    /\ ~crashed
    /\ \A c \in Calls :
        (Spawned(c) /\ Worker(c).state = "errored")
        => inv[c].outcome.state = "rejected"

\* C4 as stated: for every operation that runs a worker, status 0 with a
\* stdout that is not JSON resolves with {output: stdout trimmed}.
C4_DegradedOutputEveryOperation ==
    \A c \in Calls :
        ( /\ Closed(c)
          /\ Worker(c).code = 0
          /\ JSONParse(Worker(c).out) = SyntaxError )
        => inv[c].outcome = Resolved(OutputObject(Trim(Worker(c).out)))

\* C4 as amended: for every operation that runs its worker through
\* #runPythonInline, status 0 with a stdout that is not JSON resolves with
\* {output: stdout trimmed}; extractTextFromFile resolves with
\* {text: stdout trimmed}.  Both are values, answered with 200.
C4_DegradedOutputInline ==
    \A c \in Calls :
        ( /\ Closed(c)
          /\ Worker(c).code = 0
          /\ JSONParse(Worker(c).out) = SyntaxError )
        => /\ inv[c].response.status = 200
           /\ inv[c].response.body = inv[c].outcome.value
           /\ inv[c].outcome =
                 IF inv[c].op \in InlineOps
                     THEN Resolved(OutputObject(Trim(Worker(c).out)))
                     ELSE Resolved(TextObject(Trim(Worker(c).out)))

C4_Witness ==
    \E c \in Calls :
        /\ inv[c].op \in InlineOps
        /\ Closed(c)
        /\ Worker(c).code = 0
        /\ Worker(c).out = <<LETTER, WS>>
        /\ inv[c].outcome.value = OutputObject(<<LETTER>>)

\* the tasks whose callers need a structured result
StructuredOps ==
    { "completeAnalysis", "analyzeComplaint", "findContradictions",
      "classifyContent", "checkDatabaseSimilarity", "getChatbotResponse" }

\* C5: for a task that needs structured output, status 0 with a stdout that
\* does not parse gives the caller an error, not a raw-text value.
C5_StructuredTaskProtocolError ==
    \A c \in Calls :
        ( /\ inv[c].op \in StructuredOps
          /\ Closed(c)
          /\ Worker(c).code = 0
          /\ JSONParse(Worker(c).out) = SyntaxError )
        => inv[c].outcome.state = "rejected"

\* C6: every call has at most one worker, a worker of its own that no other
\* call has; a call without a worker was rejected before spawning; and there
\* are no workers besides these, so no call started a second one after its
\* worker failed.
C6_OneFreshWorkerPerCall ==
    /\ \A c \in Calls : inv[c].pid \in DOMAIN procs \cup {0}
    /\ \A c, d \in Calls : (c # d /\ inv[c].pid # 0) => inv[c].pid # inv[d].pid
    /\ Len(procs) = Cardinality({c \in Calls : inv[c].pid # 0})
    /\ \A c \in Calls :
        (inv[c].phase # "idle" /\ inv[c].pid = 0)
        => /\ inv[c].outcome.state = "rejected"
           /\ inv[c].outcome.err.what \in {"spawn", "Unsupported file type"}

C6_Witness ==
    \E c, d \in Calls :
        /\ c # d
        /\ Closed(c)
        /\ Worker(c).code # 0
        /\ inv[c].outcome.state = "rejected"
        /\ Spawned(d)
        /\ Len(procs) = 2

\* C10: whatever the interleaving of the data and close events of the
\* workers, the `result` and `error` of an invocation are the chunks its own
\* worker wrote, in the order they arrived, and it settles as its own
\* handler settles on them and on its own worker's exit status.
C10_InvocationsIndependent ==
    \A c \in Calls :
        /\ Spawned(c) =>
              /\ inv[c].result = Worker(c).out
              /\ inv[c].error = Worker(c).err
              /\ Closed(c) =>
                    inv[c].promise =
                        CloseHandler(inv[c].op, Worker(c).code, Worker(c).out, Worker(c).err)
              /\ Worker(c).state = "running" => inv[c].promise = Unsettled
        /\ ~Spawned(c) => inv[c].result = <<>> /\ inv[c].error = <<>>

C10_Witness ==
    \E c, d \in Calls :
        /\ c # d
        /\ Closed(c) /\ Closed(d)
        /\ Worker(c).out = <<DIGIT>> /\ Worker(d).out = <<LETTER>>
        /\ inv[c].promise = Resolved(JNumber(1))
        /\ inv[d].promise.value = OutputObject(<<LETTER>>)

\* C11: the orchestrator never ends a worker and has no timeout.  An
\* invocation with a worker is pending exactly while the worker has not
\* closed; a running worker stops running only by its own close, and that
\* step settles the invocation; a caller that gives up changes neither the
\* workers nor the invocations; and once the worker has closed, the
\* invocation is eventually settled, resolved or rejected.
C11_NoAbortNoTimeout ==
    /\ [](\A c \in Calls :
            Spawned(c) => ((inv[c].phase = "pending") <=> ~Closed(c)))
    /\ [][\A c \in Calls :
            (Spawned(c) /\ Worker(c).state = "running"
                /\ procs'[inv[c].pid].state # "running")
            => /\ procs'[inv[c].pid].state = "closed"
               /\ inv'[c].phase = "settled"]_vars
    /\ [][\A c \in Calls :
            (c \in waiting /\ c \notin waiting') => (procs' = procs /\ inv' = inv)]_vars
    /\ \A c \in Calls :
            Closed(c) ~> (inv[c].promise.state \in {"resolved", "rejected"})

C11_Witness ==
    \E c, d \in Calls :
        /\ c \notin waiting
        /\ Closed(c)
        /\ inv[c].phase = "settled"
        /\ d \notin waiting
        /\ Spawned(d)
        /\ Worker(d).state = "running"
        /\ inv[d].phase = "pending"

\* C12: an invocation has one terminal outcome.  Its promise is pending,
\* resolved with a value and no error, or rejected with an error and no
\* value; once it is settled it never changes; and an invocation with a
\* worker is settled only after the worker's close, on the whole of what the
\* worker wrote, never on a prefix of it.
C12_ExactlyOneOutcome ==
    /\ [](\A c \in Calls :
            /\ inv[c].promise.state \in {"pending", "resolved", "rejected"}
            /\ inv[c].promise.state = "resolved" =>
                  inv[c].promise.err = NoError /\ inv[c].promise.value # NoValue
            /\ inv[c].promise.state = "rejected" =>
                  inv[c].promise.value = NoValue /\ inv[c].promise.err # NoError
            /\ (Spawned(c) /\ inv[c].promise.state # "pending") =>
                  /\ Closed(c)
                  /\ inv[c].promise =
                        CloseHandler(inv[c].op, Worker(c).code, Worker(c).out, Worker(c).err))
    /\ [][\A c \in Calls :
            inv[c].promise.state # "pending" => inv'[c].promise = inv[c].promise]_vars

C12_Witness ==
    \E c \in Calls :
        /\ Closed(c)
        /\ Worker(c).code = 0
        /\ Worker(c).out = <<DIGIT, DIGIT>>
        /\ inv[c].promise = Resolved(JNumber(11))

\* C19: every failure of an operation reaches its caller as an error under
\* the operation's own '<task> failed: ' prefix, with the failure detail: the
\* worker's exit status and diagnostics, or the reason the worker was never
\* started.  This includes the worker failures of extractTextFromFile.
C19_FailuresNameTheTask ==
    \A c \in Calls :
        /\ inv[c].outcome.state = "rejected" =>
              /\ inv[c].outcome.err.prefix = <<FailedPrefix(inv[c].op)>>
              /\ inv[c].outcome.err.what # "none"
              /\ inv[c].response.message = inv[c].outcome.err
        /\ (Closed(c) /\ Worker(c).code # 0) =>
              /\ inv[c].outcome.state = "rejected"
              /\ inv[c].outcome.err.code = Worker(c).code

\* ------------------------------------------------- similarity check: claims
\* the threshold the request supplies, or the default when it supplies none
CallerThreshold(v, default) == IF v # NoValue THEN v.num ELSE default

\* C13: the matcher of each mode runs with the threshold the request
\* supplies, whatever its value in [0, 1], 0 included, and with the default
\* (0.5 cross, 0.3 within) only when the request supplies none.
C13_CallerThresholdsUsed ==
    sim.phase \in {"loaded", "crossed", "matched", "answered"}
    => /\ sim.cross_th = CallerThreshold(sim.cross, CrossDefault)
       /\ sim.within_th = CallerThreshold(sim.within, WithinDefault)

\* the threshold in effect for a mode of the request
ActiveThreshold(key, default) == Get(sim.payload, key, default)

\* C14: every match that is returned has a score in [0, 1], and a score no
\* lower than the threshold in effect for its mode in that request.
C14_ScoresReachThreshold ==
    sim.phase = "answered"
    => /\ \A k \in DOMAIN sim.cross_db_matches :
             /\ sim.cross_db_matches[k][3] \in 0..10
             /\ sim.cross_db_matches[k][3] >= ActiveThreshold("cross_threshold", CrossDefault)
       /\ \A k \in DOMAIN sim.within_db_matches :
             /\ sim.within_db_matches[k][3] \in 0..10
             /\ sim.within_db_matches[k][3] >= ActiveThreshold("within_threshold", WithinDefault)

C14_Witness ==
    /\ sim.phase = "answered"
    /\ sim.cross_th = 10
    /\ sim.within_th = 4
    /\ Len(sim.cross_db_matches) = 1
    /\ Len(sim.within_db_matches) = 2
    /\ \E k \in DOMAIN sim.within_db_matches : sim.within_db_matches[k][3] = 5

\* C15: within_db_matches has no pair of a record with itself, and no two
\* entries for the same two records, in either order.
C15_NoSelfNoDuplicatePairs ==
    sim.phase \in {"matched", "answered"}
    => /\ \A k \in DOMAIN sim.within_db_matches :
             sim.within_db_matches[k][1] # sim.within_db_matches[k][2]
       /\ \A k, l \in DOMAIN sim.within_db_matches :
             k # l => {sim.within_db_matches[k][1], sim.within_db_matches[k][2]}
                        # {sim.within_db_matches[l][1], sim.within_db_matches[l][2]}

C15_Witness ==
    /\ sim.phase = "answered"
    /\ sim.within_th = 0
    /\ Len(sim.db1) >= 3
    /\ 2 * Len(sim.within_db_matches) = Len(sim.db1) * (Len(sim.db1) - 1)

Written10(t) == SelectSeq(t, LAMBDA ch : ch \notin {" ", "-"})

\* the input is N, 0N, 91N or +91N for a number N of ten digits, with
\* spaces or hyphens anywhere
IsRepresentation(t, N) ==
    /\ Len(N) = 10
    /\ \A i \in 1..10 : N[i] \in Digits
    /\ \E prefix \in {<<>>, <<"0">>, <<"9", "1">>, <<"+", "9", "1">>} :
          Written10(t) = prefix \o N

\* the last ten characters of the input without spaces and hyphens
LastTen(t) == SubSeq(Written10(t), Len(Written10(t)) - 9, Len(Written10(t)))

\* C17 as stated: every representation of every number N of ten digits
\* normalises to the one canonical string of N, +91 followed by all ten
\* digits of N.
C17_AnyTenDigitsCanonical ==
    (phone.phase # "input" /\ Len(Written10(phone.input)) >= 10
        /\ IsRepresentation(phone.input, LastTen(phone.input)))
    => phone.result = <<"+", "9", "1">> \o LastTen(phone.input)

\* C17 as amended: when the first digit of N is 6, 7, 8 or 9, every
\* representation of N normalises to +91 followed by all ten digits of N, a
\* leading 91 of N included; for any other N no representation of it
\* normalises to anything.
C17_MobileNumberCanonical ==
    (phone.phase # "input" /\ Len(Written10(phone.input)) >= 10
        /\ IsRepresentation(phone.input, LastTen(phone.input)))
    => phone.result =
          IF LastTen(phone.input)[1] \in {"6", "7", "8", "9"}
              THEN <<"+", "9", "1">> \o LastTen(phone.input)
              ELSE Null

C17_Witness ==
    /\ phone.phase = "normalized"
    /\ phone.input = <<"9", "1", "-", "9", "1", "9", "8", "7", " ", "9", "8", "7", "6", "5">>
    /\ phone.result = <<"+", "9", "1", "9", "1", "9", "8", "7", "9", "8", "7", "6", "5">>

\* --------------------------------------------------- the worker scripts: claims
SixFields ==
    { "contradiction_analysis", "has_contradiction", "incident_details",
      "narrative_summary", "classification", "priority_score" }

AnalysisSteps == {"contradiction", "details", "summary", "classify"}

\* C7: complete-analysis is all or nothing.  When a step of the script
\* raises, the call is rejected and the answer is a 500 with the error and no
\* result field at all; when the call is answered with 200, no step raised and
\* the body is an object with exactly the six result fields.
C7_CompleteAnalysisAllOrNothing ==
    (run.op = "completeAnalysis" /\ run.phase = "settled")
    => /\ run.raisedAt # "" =>
             /\ run.outcome.state = "rejected"
             /\ run.outcome.err.prefix = <<"Complete analysis failed: ">>
             /\ run.response.status = 500
             /\ run.response.body = NoValue
       /\ run.raisedAt = "" =>
             /\ run.outcome.state = "resolved"
             /\ run.response.status = 200
             /\ run.response.body.type = "object"
             /\ DOMAIN run.response.body.obj = SixFields
             /\ run.response.body.obj = Printed(run.op, run.vals)

C7_Witness ==
    /\ run.op = "completeAnalysis"
    /\ run.phase = "settled"
    /\ run.raisedAt = "summary"
    /\ run.vals["contradiction_analysis"] # <<>>
    /\ run.vals["incident_details"] # <<>>
    /\ run.response.status = 500

\* the request of the run has field `key` left out or empty
Unset(key) ==
    /\ run.inputJson.type = "object"
    /\ key \in DOMAIN run.inputJson.obj => run.inputJson.obj[key] = <<>>

\* C8: in analyze-complaint, contradiction and complete-analysis, an evidence
\* path that is left out or empty has its extraction routine never called, no
\* path is looked up on disk, the evidence contributes empty text (for video
\* an empty transcript and no frames), and its statement never fails; with no
\* evidence path set the call fails only if an analysis step itself raises,
\* and otherwise resolves with the object the script printed.
C8_AbsentEvidenceSkipped ==
    (run.op \in PipelineOps /\ run.inputJson.type = "object")
    => /\ run.statted = {}
       /\ \A k \in Evidence :
             Unset(PathKey(k))
             => /\ Routine(k) \notin run.called
                /\ run.raisedAt # k
                /\ k # "video" => run.vals[k \o "_text"] = <<>>
                /\ k = "video" =>
                      /\ run.vals["text_from_video_audio"] = <<>>
                      /\ run.vals["text_from_frames"] = <<>>
                      /\ run.vals["text_from_video_frames"] = <<>>
       /\ ((\A k \in Evidence : Unset(PathKey(k))) /\ run.phase = "settled")
             => /\ run.raisedAt \in AnalysisSteps \cup {""}
                /\ run.raisedAt = "" =>
                      /\ run.outcome = Resolved(JObject(Printed(run.op, run.vals)))
                      /\ run.response.status = 200

C8_Witness ==
    /\ run.op = "completeAnalysis"
    /\ run.inputJson = JObject(Complaint @@ ("image_path" :> <<>>))
    /\ run.phase = "settled"
    /\ run.outcome.state = "resolved"
    /\ run.called =
          { "contradiction_in_complain_and_evidences", "get_incident_details_from_text",
            "get_narrative_summary", "classify_cybercrime" }

\* the request of an adapter names a path and there is no file at it
PathSetFileMissing ==
    /\ run.op \in AdapterOps
    /\ run.inputJson.type = "object"
    /\ AdapterKey(run.op) \in DOMAIN run.inputJson.obj
    /\ run.inputJson.obj[AdapterKey(run.op)] # <<>>
    /\ run.inputJson.obj[AdapterKey(run.op)] \notin run.fs

\* C9: an adapter whose path is set while no file is there never calls the
\* extraction routine and never raises; its worker prints the 'not found'
\* object and ends with status 0, and the invocation resolves with that
\* object.
C9_MissingFileNotFoundObject ==
    PathSetFileMissing
    => /\ Routine(AdapterKind(run.op)) \notin run.called
       /\ run.raisedAt = ""
       /\ run.phase \in {"exited", "settled"} =>
             /\ run.code = 0
             /\ run.stdout = Stringify("error" :> NotFound(run.op)) \o <<WS>>
       /\ run.phase = "settled" =>
             /\ run.promise = Resolved(JObject("error" :> NotFound(run.op)))
             /\ run.outcome = Resolved(JObject("error" :> NotFound(run.op)))
             /\ run.response.status = 200

C9_Witness ==
    /\ PathSetFileMissing
    /\ run.op = "analyzeImageFile"
    /\ run.phase = "settled"
    /\ run.statted = {EvidencePath}
    /\ run.outcome.value = JObject("error" :> <<"Image file not found">>)

\* C18: the priority label a classification returns is one of Very Low, Low,
\* Medium, High and Very High, whatever the input, empty incident details
\* included: the classification field of every complete-analysis answer is
\* one of the five.
C18_PriorityLabelOneOfFive ==
    (run.op = "completeAnalysis" /\ run.phase = "settled" /\ run.response.status = 200)
    => /\ "classification" \in DOMAIN run.response.body.obj
       /\ \E label \in PriorityLabels :
             run.response.body.obj["classification"] = <<label>>

\* the operations of kind k in a sequence of stdin operations
OpsOfKind(ops, k) == {i \in 1..Len(ops) : ops[i][1] = k}

\* C24: in every worker invocation through #runPythonInline the payload is
\* written to stdin at most once, as its JSON text or as it is when it is a
\* string, and stdin is ended exactly once, as the last operation, whether
\* or not anything was written; this is done before the worker prints
\* anything and before the promise settles, and the worker reads exactly
\* what was written.
C24_StdinWrittenOnceThenEnded ==
    run.phase # "none" =>
        LET ops == run.stdinOps
            writes == OpsOfKind(ops, "write")
            payload == run.inputJson
            text == IF payload.type = "string" THEN payload.text
                    ELSE Stringify(payload.obj)
        IN  /\ Cardinality(writes) <= 1
            /\ OpsOfKind(ops, "end") = {Len(ops)}
            /\ \A i \in writes : ops[i][2] = text /\ text # <<>>
            /\ (text # <<>> => writes # {})
            /\ run.stdin = text

C24_Witness ==
    /\ run.phase = "settled"
    /\ run.inputJson = JString(<<>>)
    /\ run.stdinOps = << <<"end", <<>> >> >>
    /\ run.stdout # <<>>

\* ------------------------------------------- accounts and one-time codes: claims
\* C20: a login-verify succeeds for a user only after a credentials check
\* (login with the right password on a verified account) succeeded for that
\* user, and the code it accepts is the one that credentials check issued.
C20_LoginVerifyAfterCredentials ==
    \A u \in Users :
        auth.users[u].acceptedFrom # "none"
        => /\ auth.users[u].creds
           /\ auth.users[u].state = "verified"
           /\ auth.users[u].acceptedFrom = "login"

\* C21: registration completes only through the one-time code.  A step in
\* which a user becomes verified or the user's password changes is a
\* verify-otp for that user, called with the code stored for the user at
\* that moment and not yet expired; and the credentials step of login
\* answers 200 for no user who is not verified (400 instead).
C21_VerifiedOnlyByOtp ==
    /\ [][\A u \in Users :
            (auth'.users[u].state # auth.users[u].state
                /\ auth'.users[u].state = "verified")
            \/ auth'.users[u].password_hash # auth.users[u].password_hash
            => \E otp \in Otps, password \in Passwords :
                  /\ VerifyOtp(u, otp, password)
                  /\ otp = auth.users[u].otp
                  /\ auth.now <= auth.users[u].otp_expiry
                  /\ auth'.users[u].state = "verified"
                  /\ auth'.users[u].password_hash = password]_vars
    /\ [][\A u \in Users, password \in Passwords \cup {""}, otp \in Otps :
            (auth.users[u].state = "registered" /\ password # "" /\ Login(u, password, otp))
            => (auth'.last.status = 400 /\ auth'.users = auth.users)]_vars
    /\ [](\A u \in Users : auth.users[u].creds => auth.users[u].state = "verified")

C21_Witness ==
    \E u \in Users :
        /\ auth.users[u].state = "verified"
        /\ auth.users[u].password_hash = "secret"
        /\ auth.users[u].creds
        /\ auth.now = 1

\* C25: a one-time code is used once.  A successful verify-otp or
\* login-verify, and a logout, leave the user's otp and otp_expiry NULL; and
\* while they are NULL no verify-otp and no login-verify for that user
\* succeeds, whatever code is submitted: a login must issue a new code first.
C25_OtpSingleUse ==
    [][\A u \in Users :
        LET cleared == auth'.users[u].otp = "" /\ auth'.users[u].otp_expiry = 0
            refused == auth'.last.status # 200 /\ auth'.users = auth.users
        IN  /\ (auth'.last.user = u /\ auth'.last.route = "logout" /\ Logout(u)) => cleared
            /\ (auth'.last.user = u /\ auth'.last.route = "login-verify") =>
                  \A otp \in Otps \cup {""} :
                     LoginVerify(u, otp) =>
                        /\ auth'.last.status = 200 => cleared
                        /\ auth.users[u].otp = "" => refused
            /\ (auth'.last.user = u /\ auth'.last.route = "verify-otp") =>
                  \A otp \in Otps \cup {""}, password \in Passwords \cup {""} :
                     VerifyOtp(u, otp, password) =>
                        /\ auth'.last.status = 200 => cleared
                        /\ auth.users[u].otp = "" => refused]_vars

C25_Witness ==
    \E u \in Users :
        /\ auth.users[u].acceptedFrom = "login"
        /\ auth.users[u].otp = ""
        /\ auth.last = [route |-> "login-verify", user |-> u, status |-> 400]

\* C26: for a user that exists, verify-otp and login-verify called with a
\* code other than the stored one, or with the stored one after its expiry,
\* answer 400 and leave every row as it was, so that the stored code is
\* still accepted by a later attempt made before it expires.
C26_FailedAttemptChangesNothing ==
    [][\A u \in Users, otp \in Otps :
        (auth.users[u].state # "none" /\ auth'.last.user = u
            /\ (otp # auth.users[u].otp \/ auth.now > auth.users[u].otp_expiry))
        => LET unchanged == auth'.last.status = 400 /\ auth'.users = auth.users
           IN  /\ (auth'.last.route = "verify-otp"
                     /\ \E password \in Passwords : VerifyOtp(u, otp, password))
                   => unchanged
               /\ (auth'.last.route = "login-verify" /\ LoginVerify(u, otp))
                   => unchanged]_vars

C26_Witness ==
    \E u \in Users :
        /\ auth.last = [route |-> "verify-otp", user |-> u, status |-> 400]
        /\ auth.users[u].state = "registered"
        /\ auth.users[u].otp = "123456"
        /\ auth.now <= auth.users[u].otp_expiry

\* ------------------------------------------------------------ the client: claims
\* C22: the login flow can be completed in the client.  A successful
\* credentials submission takes the user to /login-verify; while the user is
\* there with a login pending and not yet authenticated, the effects that
\* run on the page push no other route; and a successful code verification
\* leaves isAuthenticated() true and the user on the way to /dashboard.
C22_LoginFlowCompletes ==
    [][/\ (client.answer.status = 200 /\ client.inflight = "login" /\ Continue)
            => client'.pushing = "/login-verify"
       /\ (client.path = "/login-verify" /\ client.login_user_id # NoItem
             /\ ~isAuthenticated(client) /\ Effects)
            => client'.pushing = client.pushing
       /\ (client.answer.status = 200 /\ client.inflight = "loginVerify" /\ Continue)
            => (isAuthenticated(client') /\ client'.pushing = "/dashboard")]_vars

C27_OfficerOnly ==
    /\ [][\A token \in RequestTokens, complete \in BOOLEAN, transport \in Transports :
            (CreateDataRequest(token, complete, transport) \/ ListDataRequests(token))
            => /\ token.kind \in {"none", "invalid"} =>
                     (desk'.last.status = 401 /\ ~desk'.last.ran /\ desk'.rows = desk.rows
                        /\ desk'.last.rows = <<>>)
               /\ (token.kind = "signed" /\ token.role # "OFFICER") =>
                     (desk'.last.status = 403 /\ ~desk'.last.ran /\ desk'.rows = desk.rows
                        /\ desk'.last.rows = <<>>)
               /\ desk'.last.ran => (token.kind = "signed" /\ token.role = "OFFICER")]_vars
    /\ [](\A token \in desk.issued :
            /\ token.kind = "signed" /\ token.role = "OFFICER"
            /\ token.user_id \in DeskUsers
            /\ DeskRoles[token.user_id] = "OFFICER")
    /\ []((desk.last.route = "data-requests" /\ desk.last.status = 200) =>
            /\ \A i \in 1..Len(desk.last.rows) :
                  desk.last.rows[i].officer_id = desk.last.officer
            /\ Len(desk.last.rows) =
                  Cardinality({i \in 1..Len(desk.rows) :
                                  desk.rows[i].officer_id = desk.last.officer}))

C27_Witness ==
    /\ desk.last.route = "data-requests" /\ desk.last.status = 200
    /\ Len(desk.last.rows) = 1
    /\ Len(desk.rows) = 2
    /\ desk.rows[1].officer_id # desk.rows[2].officer_id

\* C29: creating a data request does not fail because the mail fails.  The
\* row is stored with email_status 'pending' before the mail is sent; with
\* transport 'email' it ends 'sent' when sendMail succeeds and 'failed' when
\* it throws; with any other transport it stays 'pending'; in all these
\* cases the answer is 201 with the stored row; and email_status is always
\* one of pending, sent, failed.
C29_MailFailureIsNotAnError ==
    /\ [][\A token \in RequestTokens, transport \in Transports :
            (requireOfficer(token) = 0 /\ CreateDataRequest(token, TRUE, transport))
            => /\ Len(desk'.rows) = Len(desk.rows) + 1
               /\ desk'.rows[Len(desk'.rows)].email_status = "pending"
               /\ transport \in {"undefined", "email"} => desk'.sending = Len(desk'.rows)
               /\ ~(transport \in {"undefined", "email"}) =>
                     /\ desk'.last.status = 201
                     /\ desk'.last.rows = <<desk'.rows[Len(desk'.rows)]>>]_vars
    /\ [][\A sent \in BOOLEAN :
            MailDone(sent)
            => /\ desk'.last.status = 201
               /\ desk'.last.rows = <<desk'.rows[desk.sending]>>
               /\ desk'.rows[desk.sending].email_status = IF sent THEN "sent" ELSE "failed"]_vars
    /\ [](\A i \in 1..Len(desk.rows) :
            desk.rows[i].email_status \in {"pending", "sent", "failed"})

\* --------------------------------------------------------- analyze-batch: claims
\* C28: analyze-batch over a non-empty files array answers one result entry
\* per file, in the order of the files; no file, whatever is wrong with it
\* or with its worker, keeps the later files from being processed or the
\* request from being answered with the results; at most one worker of the
\* batch is alive at a time; and no worker is started for an unsupported
\* type.
C28_OneEntryPerFile ==
    /\ batch.phase # "crashed"
    /\ (batch.phase = "answered" /\ batch.files # <<>>) =>
          /\ batch.status = 200
          /\ Len(batch.results) = Len(batch.files)
          /\ \A i \in 1..Len(batch.results) :
                /\ batch.results[i].index = i
                /\ batch.results[i].file_type = batch.files[i]
                /\ batch.files[i] = "undefined" => batch.results[i].kind = "error"
                /\ batch.files[i] = "doc" => batch.results[i].kind = "unsupported"
    /\ batch.alive <= 1
    /\ \A i \in batch.spawned : toLowerCase(batch.files[i]) \in BatchTypes

\* ------------------------------------------------------- the server: claims
\* C30: the server listens only after initDB has completed every statement
\* without a failure and dbReady has been set, so every request served was
\* served with dbReady true; and once initialization has failed the process
\* has exited: it never listens and never serves.
C30_ListensOnlyWhenReady ==
    /\ [](boot.listening =>
            (boot.dbReady /\ boot.done = InitStatements /\ ~boot.failed))
    /\ [](boot.served > 0 => boot.last.dbReady)
    /\ [](boot.failed => (boot.phase = "exited" /\ ~boot.listening /\ boot.served = 0))
    /\ [][boot.phase = "exited" => boot'.phase = "exited"]_vars
    /\ [][boot'.served > boot.served => boot.dbReady]_vars

C30_Witness ==
    /\ boot.listening
    /\ boot.refused > 0
    /\ boot.served > 0
    /\ boot.last = [route |-> "/health", dbReady |-> TRUE]

=============================================================================
